---------------------------- MODULE Spec2Model ----------------------------
(***************************************************************************)
(* State-machine model of the steam-mobile authenticator:                  *)
(*   - the typed authenticator lifecycle (new / login),                    *)
(*   - the login handshake wrapped by the backoff retry,                   *)
(*   - the cookie jar of MobileClient and the Cookie header of a request,  *)
(*   - the session guard (probe, expiry verdict, guarded request).         *)
(* One authenticator instance is modelled; the service and the HTTP        *)
(* transport are the environment, whose answers are drawn with \E.         *)
(***************************************************************************)
EXTENDS Integers, Sequences, FiniteSets, TLC

VARIABLES
    auth_level,     \* typestate marker of the instance (PhantomData<AuthState>)
    cache,          \* InnerAuthenticator.cache : Option<CacheGuard>
    cookie_store,   \* MobileClient.cookie_store : the CookieJar
    login_pc,       \* position of the login() future
    login_starts,   \* how many times login() was entered on this instance
    attempts,       \* handshake attempts made by the retry loop
    script,         \* scripted transport: outcomes of the attempts still to come
    outcomes,       \* outcomes of the attempts made so far
    retry_result,   \* what retry(..) resolved to
    login_result,   \* what login() returned
    api_key_fetch,  \* what cache_api_key gave login(), once it was called
    user,           \* InnerAuthenticator.user : SteamUser<MaFileState>
    op,             \* the authenticated operation in progress
    guard,          \* the session guard of the current guarded request
    inflight,       \* the HTTP request being executed by inner_http_client
    sent,           \* the last request put on the wire: host and Cookie header
    installed,      \* domains under which the last step added cookies
    calc,           \* a pure function of the crates applied to an input
    handshake,      \* one login_website call followed statement by statement
    fleet           \* several MobileClient values and the tasks that use them

vars == <<auth_level, cache, cookie_store, login_pc, login_starts, attempts,
          script, outcomes, retry_result, login_result, api_key_fetch, user, op,
          guard, inflight, sent, installed, calc, handshake, fleet>>

\* Option<T>: None is the empty set, Some(x) the singleton
None == {}
Some(x) == {x}
IsSome(o) == o # {}
Unwrap(o) == CHOOSE x \in o : TRUE

-----------------------------------------------------------------------------
(* Bounds of the model.                                                    *)

\* attempt bound of the retry policy (and length of the scripted transport)
MaxAttempts == 2
\* cap on login() entries, so that a non-consuming login stays finite
MaxLogins == 2

-----------------------------------------------------------------------------
(* Hosts and cookies.                                                      *)

STEAM_COMMUNITY_HOST == "steamcommunity.com"
STEAM_HELP_HOST == "help.steampowered.com"
STEAM_STORE_HOST == "store.steampowered.com"

SessionHosts == <<STEAM_COMMUNITY_HOST, STEAM_HELP_HOST, STEAM_STORE_HOST>>

\* hosts a request of this client may go to (a custom endpoint may be anywhere)
RequestHosts ==
    {STEAM_COMMUNITY_HOST, STEAM_HELP_HOST, STEAM_STORE_HOST, "example.com"}

Cookie(name, value, domain) == [name |-> name, value |-> value, domain |-> domain]

\* cookie::CookieJar keeps two sets, both keyed by the cookie NAME alone.
\* add: the cookie goes to the delta set, replacing one of the same name.
CookieJar_add(jar, c) ==
    [jar EXCEPT !.delta = {x \in jar.delta : x.name # c.name} \cup {c}]

\* add_original: the cookie goes to the original set, replacing one of the
\* same name whatever its domain.
CookieJar_add_original(jar, c) ==
    [jar EXCEPT !.original = {x \in jar.original : x.name # c.name} \cup {c}]

\* iter: the delta cookies, then the originals no delta cookie shadows.
CookieJar_iter(jar) ==
    jar.delta \cup
        {c \in jar.original : \A d \in jar.delta : d.name # c.name}

standard_mobile_cookies ==
    << Cookie("Steam_Language", "english", STEAM_COMMUNITY_HOST),
       Cookie("mobileClient", "android", STEAM_COMMUNITY_HOST),
       Cookie("mobileClientVersion", "0 (2.1.3)", STEAM_COMMUNITY_HOST) >>

RECURSIVE AddAll(_, _)
AddAll(jar, cs) ==
    IF cs = <<>> THEN jar
    ELSE AddAll(CookieJar_add(jar, Head(cs)), Tail(cs))

init_cookie_jar == AddAll([delta |-> {}, original |-> {}], standard_mobile_cookies)

\* the Cookie header built for a request to `domain`: the name=value pairs of
\* the cookies stored under that domain (empty when there is none)
dump_cookies_by_domain(jar, domain) ==
    {[name |-> c.name, value |-> c.value] :
        c \in {x \in CookieJar_iter(jar) : x.domain = domain}}

dump_cookies_by_domain_and_name(jar, domain, name) ==
    LET hits == {c \in CookieJar_iter(jar) : c.domain = domain /\ c.name = name}
    IN  IF hits = {} THEN None ELSE Some((CHOOSE c \in hits : TRUE).value)

get_cookie_value(domain, name) ==
    dump_cookies_by_domain_and_name(cookie_store, domain, name)

\* Set-Cookie lists a response may carry, in order: <<name, value, domain>>,
\* the domain being the one the cookie declares for itself
ResponseCookies == {<<>>, << <<"sessionid", "v1", "steampowered.com">> >>}

\* a store that keeps each cookie under the domain it declares
RECURSIVE StoreResponseCookies_declared(_, _, _)
StoreResponseCookies_declared(jar, host, cs) ==
    IF cs = <<>> THEN jar
    ELSE StoreResponseCookies_declared(
            CookieJar_add_original(jar, Cookie(Head(cs)[1], Head(cs)[2], Head(cs)[3])),
            host, Tail(cs))

\* MobileClient::request, after a successful execute: every cookie of the
\* response is stored under the host of the response's URL (set_domain(host)).
RECURSIVE StoreResponseCookies(_, _, _)
StoreResponseCookies(jar, host, cs) ==
    IF cs = <<>> THEN jar
    ELSE StoreResponseCookies(
            CookieJar_add_original(jar, Cookie(Head(cs)[1], Head(cs)[2], host)),
            host, Tail(cs))

-----------------------------------------------------------------------------
(* The login handshake and the retry that wraps it.                        *)

SteamIds == {"76561197960265729", "76561197960265730"}
CaptchaGuids == {"guid1", "guid2"}
ApiKeys == {"apikey1"}

Outcome(kind, step, data) == [kind |-> kind, step |-> step, data |-> data]

\* What one handshake attempt (login_website) can end in, with the step at
\* which it ended: 1 session-id request, 2 clock offset, 3 RSA key request and
\* password encryption, 4 credential submission and classification.
HandshakeOutcomes ==
    { Outcome("Network", 1, "session request failed"),
      Outcome("GeneralFailure", 1,
              "Something went wrong while getting sessionid. Should retry"),
      Outcome("Network", 3, "getrsakey request failed"),
      Outcome("Panic", 3, "There was an error deserializing RSA Response."),
      Outcome("IncorrectCredentials", 4, ""),
      Outcome("GeneralFailure", 4, "response body") }
    \cup { Outcome("CaptchaRequired", 4, g) : g \in CaptchaGuids }
    \cup { Outcome("Success", 4, s) : s \in SteamIds }

\* the scripted transport: one outcome per attempt the policy may make
RECURSIVE Scripts(_)
Scripts(n) ==
    IF n = 0 THEN {<<>>}
    ELSE {<<o>> \o s : o \in HandshakeOutcomes, s \in Scripts(n - 1)}

\* the classes of section 4.5
IsTransient(o) == o.kind = "Network"
IsPermanent(o) == o.kind \in {"CaptchaRequired", "IncorrectCredentials", "GeneralFailure"}

\* the cookies the handshake installs for one host once the response is Success
SessionCookiesFor(host, steamid, session_id) ==
    << Cookie("steamLoginSecure", steamid \o "%7C%7C" \o "wgtoken_secure", host),
       Cookie("steamLogin", steamid \o "%7C%7C" \o "wgtoken", host),
       Cookie("sessionid", session_id, host),
       Cookie("timezoneOffset", "0,0", host) >>

RECURSIVE AddOriginals(_, _)
AddOriginals(jar, cs) ==
    IF cs = <<>> THEN jar
    ELSE AddOriginals(CookieJar_add_original(jar, Head(cs)), Tail(cs))

RECURSIVE InstallSessionCookies(_, _, _, _)
InstallSessionCookies(jar, hosts, steamid, session_id) ==
    IF hosts = <<>> THEN jar
    ELSE InstallSessionCookies(
            AddOriginals(jar, SessionCookiesFor(Head(hosts), steamid, session_id)),
            Tail(hosts), steamid, session_id)

\* the cookie jar after one attempt that ended in outcome o: the answer to the
\* session-id request leaves its sessionid cookie under the community host as
\* soon as that request succeeded; Success installs the session cookies.
login_website_cookies(jar, o) ==
    LET sid == "sessionid0"
        afterSession ==
            IF o.step > 1
            THEN StoreResponseCookies(jar, STEAM_COMMUNITY_HOST, << <<"sessionid", sid, STEAM_COMMUNITY_HOST>> >>)
            ELSE jar
    IN  IF o.kind = "Success"
        THEN InstallSessionCookies(afterSession, SessionHosts, o.data, sid)
        ELSE afterSession

\* the domains login_website adds cookies under when it ends in o
login_website_domains(o) ==
    IF o.kind = "Success"
    THEN {SessionHosts[i] : i \in 1..Len(SessionHosts)}
    ELSE IF o.step > 1 THEN {STEAM_COMMUNITY_HOST} ELSE {}

\* CachedInfo::default, and the CachedInfo a successful attempt fills in
EmptyCache == [steamid |-> "", api_key |-> None]
\* CachedInfo::set_steamid: the account id is the steamid it is given
CachedInfo_set_steamid(c, steamid) == [c EXCEPT !.steamid = steamid]

\* CachedInfo::set_api_key
CachedInfo_set_api_key(c, key) == [c EXCEPT !.api_key = key]

\* a handshake that leaves the cache as it found it
login_website_cache_untouched(o) == EmptyCache

login_website_cache(o) ==
    IF o.kind = "Success" THEN CachedInfo_set_steamid(EmptyCache, o.data) ELSE EmptyCache

NoError == Outcome("", 0, "")

\* the closure's map_err with every error retried
ClassifyAllTransient(e) == "transient"

\* the closure's map_err: whatever the error, backoff::Error::permanent(e)
ClassifyError(e) == "permanent"

\* backoff::future::retry on a failed attempt: a permanent error aborts, a
\* transient one is retried while the policy allows one more attempt
RetryDecision(e, made) ==
    IF ClassifyError(e) = "permanent" THEN "abort"
    ELSE IF made < MaxAttempts THEN "retry" ELSE "abort"

\* `?` on the retry's error: wrapped into AuthError, the error itself untouched
AuthError_from(e) == [kind |-> "AuthError", source |-> e]

\* what the caller's binding holds once login(self) was called on it
login_self_borrowed(level) == level

\* login(self): the Unauthenticated value is moved into the call
login_self(level) == "Moved"

\* what cache_api_key may give: a key, or nothing when the fetch failed
cache_api_key_results == {None} \cup {Some(k) : k \in ApiKeys}

\* login() dropping the key it fetched
CacheIgnoringApiKey(c, fetched) == c

\* login() with the result of cache_api_key: a key is set, nothing is ignored
CacheWithApiKey(c, fetched) ==
    IF IsSome(fetched) THEN CachedInfo_set_api_key(c, Some(Unwrap(fetched))) ELSE c

\* api_key(): the key held by the cache, read under the lock
api_key(self_cache) == Unwrap(self_cache).api_key

\* the value login() builds on success, without its cache
AuthenticatedWithoutCache(c) == [auth_level |-> "Authenticated", cache |-> None]

\* the value login() builds on success
AuthenticatedValue(c) == [auth_level |-> "Authenticated", cache |-> Some(c)]

-----------------------------------------------------------------------------
(* Redirect targets, the HTTP client's redirect policy, the session guard. *)

\* a path as the sequence of its characters
P_login_home == <<"/", "l", "o", "g", "i", "n", "/", "h", "o", "m", "e">>
P_my_profile == <<"/", "m", "y", "/", "p", "r", "o", "f", "i", "l", "e">>
P_lostauth == <<"l", "o", "s", "t", "a", "u", "t", "h">>
P_empty == <<>>
LoginPrefix == <<"/", "l", "o", "g", "i", "n">>

\* str::starts_with
StartsWith(s, prefix) ==
    /\ Len(s) >= Len(prefix)
    /\ SubSeq(s, 1, Len(prefix)) = prefix

\* a Location header value: an absolute URL with an authority ("abs"), a
\* relative reference ("rel"), or an absolute URL without a host ("nohost")
Location(form, scheme, host, path) ==
    [form |-> form, scheme |-> scheme, host |-> host, path |-> path]

Locations ==
    { Location("abs", "https", STEAM_STORE_HOST, P_login_home),
      Location("abs", "https", STEAM_STORE_HOST, P_my_profile),
      Location("abs", "steammobile", "lostauth", P_empty),
      Location("rel", "", "", P_login_home),
      Location("nohost", "steammobile", "", P_lostauth) }

\* what the service answers to one request: a redirect status or not, a
\* Location header or none, Set-Cookie headers
Answers ==
    [redirect : BOOLEAN,
     location : {None} \cup {Some(l) : l \in Locations},
     cookies : ResponseCookies]

\* Url::parse: a relative reference has no base and is an error; host_str()
\* is None for a URL without a host
Url_parse(l) ==
    [ok |-> l.form # "rel",
     host_str |-> IF l.form = "abs" THEN Some(l.host) ELSE None,
     path |-> l.path]

\* url_expired_check: "panic" is host_str().unwrap() on None
url_expired_check(url) ==
    IF ~IsSome(url.host_str) THEN "Panic"
    ELSE IF Unwrap(url.host_str) = "lostauth" \/ StartsWith(url.path, LoginPrefix)
         THEN "Ok(true)" ELSE "Ok(false)"

\* the Location header of a response, if it has one
retrieve_header_location(response) == response.location

\* session_is_expired on the response its probe got: "Panic" is the unwrap of
\* a failed Url::parse
session_is_expired(response) ==
    LET location == retrieve_header_location(response)
    IN  IF IsSome(location)
        THEN LET parsed == Url_parse(Unwrap(location))
             IN  IF parsed.ok THEN url_expired_check(parsed) ELSE "Panic"
        ELSE "Ok(false)"

\* request_with_session_guard that sends the request whatever the probe said
GuardDecisionIgnoringProbe(verdict) == "send"

\* request_with_session_guard on the verdict of session_is_expired: `?`
\* returns the probe's error, an expired session runs into unimplemented!(),
\* otherwise the request is sent
GuardDecision(verdict) ==
    CASE verdict = "Err" -> "return_err"
      [] verdict = "Panic" -> "panic"
      [] verdict = "Ok(true)" -> "unimplemented"
      [] OTHER -> "send"

\* Policy::limited(5) of init_mobile_client
RedirectLimit == 5

\* reqwest follows a redirect status whose Location joins the current URL
\* into a URL that is also a valid http::Uri
Followable(answer) ==
    /\ answer.redirect
    /\ IsSome(answer.location)
    /\ Unwrap(answer.location).form \in {"abs", "rel"}

\* the redirect policy on the followed-so-far count, then the scheme check
RedirectAction(hops, l) ==
    IF hops + 1 >= RedirectLimit THEN "TooManyRedirects"
    ELSE IF l.form = "abs" /\ l.scheme \notin {"http", "https"} THEN "BadScheme"
    ELSE "Follow"

-----------------------------------------------------------------------------
(* Authenticated operations.                                               *)

\* the identity the authenticator was built around: with the secret bundle
\* (PresentMaFile) it holds the confirmation secrets, without it it has none
SteamUsers ==
    { [ma_file |-> "PresentMaFile", identity_secret |-> Some("identity_secret"),
       device_id |-> Some("android:device")],
      [ma_file |-> "AbsentMaFile", identity_secret |-> None, device_id |-> None] }

ConfirmationOps ==
    {"fetch_confirmations", "handle_confirmations", "process_confirmations"}

OpKinds ==
    {"fetch_confirmations", "handle_confirmations", "process_confirmations",
     "add_authenticator", "finalize_authenticator", "remove_authenticator",
     "request_custom_endpoint"}

\* the impl blocks with every Authenticated value offering the confirmations
ExposedWithoutMaFile(kind, level, ma_file) == level = "Authenticated"

\* which impl block offers an operation: the Authenticated one, and for the
\* confirmation operations the one of <Authenticated, PresentMaFile>
Exposed(kind, level, ma_file) ==
    /\ level = "Authenticated"
    /\ kind \in ConfirmationOps => ma_file = "PresentMaFile"

InvalidUrl == "not a url"

\* where an operation's requests go: a custom endpoint is the caller's URL
OpTargets(kind) ==
    IF kind = "request_custom_endpoint" THEN RequestHosts \cup {InvalidUrl}
    ELSE {STEAM_COMMUNITY_HOST}

\* the most guarded requests one call makes, one after the other
StepsOf(kind) ==
    IF kind \in {"add_authenticator", "finalize_authenticator"} THEN 3
    ELSE IF kind = "handle_confirmations" THEN 2 ELSE 1

-----------------------------------------------------------------------------
(* Confirmations.                                                          *)

Confirmation(id, key, kind) == [id |-> id, key |-> key, kind |-> kind]

\* what a listing may return: nothing, or a trade, a market listing and
\* another trade
Listings ==
    { <<>>,
      << Confirmation("101", "key101", "Trade"),
         Confirmation("102", "key102", "Market"),
         Confirmation("103", "key103", "Trade") >> }

IsTrade(c) == c.kind = "Trade"

\* the caller's filter f of handle_confirmations
Filters == {"all", "trade", "none"}
FilterBy(f, l) ==
    CASE f = "all" -> l
      [] f = "trade" -> SelectSeq(l, IsTrade)
      [] OTHER -> <<>>

\* what a caller may hand to process_confirmations
Selections == {FilterBy(f, l) : f \in Filters, l \in Listings}

\* Confirmations::is_empty (Deref to Vec)
Confirmations_is_empty(l) == l = <<>>

ConfirmationActions == {"Accept", "Deny"}

\* ConfirmationAction::as_operation
as_operation(action) ==
    CASE action = "Accept" -> Some("allow")
      [] action = "Deny" -> Some("cancel")
      [] OTHER -> None

\* ConfirmationAction::as_tag
as_tag(action) == "conf"

\* ConfirmationMultiAcceptRequest::default
ConfirmationMultiAcceptRequest_default ==
    [steamid |-> "", confirmation_hash |-> <<>>, device_kind |-> "android",
     operation |-> None, device_id |-> None, time |-> "", tag |-> "conf",
     confirmation_id |-> <<>>, confirmation_key |-> <<>>]

\* the synchronized time of a signature
SteamTime == "t0"

\* the confirmation signature: a keyed hash of the time and the tag, kept as
\* the triple it is a function of
generate_confirmation_hash(secret, tag, time) == <<secret, tag, time>>

\* the name of the i-th of the indexed parameters
IndexedName(base, i) == base \o "[" \o ToString(i) \o "]"

\* the selected confirmations' ids as indexed parameters
confirmation_id(selection) ==
    [i \in 1..Len(selection) |-> <<IndexedName("id", i), selection[i].id>>]

\* the keys paired with the ids in the opposite order
confirmation_key_reversed(selection) ==
    [i \in 1..Len(selection) |->
        <<IndexedName("key", i), selection[Len(selection) + 1 - i].key>>]

\* the selected confirmations' keys as indexed parameters
confirmation_key(selection) ==
    [i \in 1..Len(selection) |-> <<IndexedName("key", i), selection[i].key>>]

\* the batched action request send_confirmations builds
send_confirmations_request(u, steamid, action, selection) ==
    [ConfirmationMultiAcceptRequest_default EXCEPT
        !.steamid = steamid,
        !.confirmation_hash =
            generate_confirmation_hash(u.identity_secret, as_tag(action), SteamTime),
        !.operation = as_operation(action),
        !.device_id = u.device_id,
        !.time = SteamTime,
        !.tag = as_tag(action),
        !.confirmation_id = confirmation_id(selection),
        !.confirmation_key = confirmation_key(selection)]

-----------------------------------------------------------------------------
(* The programs of the authenticated operations.                           *)

\* what an operation does next: a guarded request to an endpoint, or return
Request(endpoint) ==
    [do |-> "request", endpoint |-> endpoint, result |-> "", error |-> "",
     value |-> "", delay |-> FALSE]
Return(result, error, value, delay) ==
    [do |-> "return", endpoint |-> "", result |-> result, error |-> error,
     value |-> value, delay |-> delay]

\* what the service may answer to an endpoint's request: ok or an error, with
\* the flag or the list the endpoint reports
Answer(ok, flag, list) == [ok |-> ok, flag |-> flag, list |-> list]
ServiceAnswers(endpoint) ==
    CASE endpoint \in {"account_has_phone", "add_phone_to_account"} ->
            {Answer(TRUE, TRUE, <<>>), Answer(TRUE, FALSE, <<>>), Answer(FALSE, FALSE, <<>>)}
      [] endpoint = "get_confirmations" ->
            {Answer(TRUE, FALSE, l) : l \in Listings} \cup {Answer(FALSE, FALSE, <<>>)}
      [] endpoint = "custom" -> {Answer(TRUE, FALSE, <<>>)}
      [] OTHER -> {Answer(TRUE, FALSE, <<>>), Answer(FALSE, FALSE, <<>>)}

\* phone numbers a caller may pass, with what validate_phone_number says
PhoneNumbers ==
    { [text |-> "+5511976914922", well_formed |-> TRUE],
      [text |-> "5511976914922", well_formed |-> FALSE] }
validate_phone_number(phone_number) == phone_number.well_formed

NoPhone == [text |-> "", well_formed |-> FALSE]
NoArgs == [action |-> "", filter |-> "", selection |-> <<>>,
           current_step |-> "", phone_number |-> NoPhone]

\* the arguments a caller may pass to an operation
ArgsOf(kind) ==
    CASE kind = "handle_confirmations" ->
            {[NoArgs EXCEPT !.action = a, !.filter = f] :
                a \in ConfirmationActions, f \in Filters}
      [] kind = "process_confirmations" ->
            {[NoArgs EXCEPT !.action = a, !.selection = sel] :
                a \in ConfirmationActions, sel \in Selections}
      [] kind = "add_authenticator" ->
            {[NoArgs EXCEPT !.current_step = st, !.phone_number = ph] :
                st \in {"InitialStep", "EmailConfirmation"}, ph \in PhoneNumbers}
      [] OTHER -> {NoArgs}

\* send_confirmations sending its request whatever was selected
send_confirmations_always(selection) == Request("send_confirmations")

\* send_confirmations: nothing selected is a success without a request,
\* otherwise the one batched request
send_confirmations(selection) ==
    IF selection = <<>> THEN Return("Ok", "", "", FALSE)
    ELSE Request("send_confirmations")

\* a rejected action request sent once more
AfterActionResponseResending(a) ==
    IF a.ok THEN Return("Ok", "", "", FALSE) ELSE Request("send_confirmations")

\* process_confirmations on the answer to its action request: the result of
\* send_confirmations is returned, an error as an error
AfterActionResponse(a) ==
    IF a.ok THEN Return("Ok", "", "", FALSE) ELSE Return("Err", "Rejected", "", FALSE)

\* add_authenticator going on to the attachment without the e-mail signal
add_authenticator_branch_no_email(user_has_phone_registered, current_step, phone_number) ==
    IF ~user_has_phone_registered /\ current_step = "InitialStep"
    THEN IF ~validate_phone_number(phone_number)
         THEN Return("Err", "GeneralFailure: Invalid phone number", "", FALSE)
         ELSE Request("add_phone_to_account")
    ELSE Request("add_authenticator_to_account")

\* add_authenticator sending the e-mail signal whether or not a phone is
\* registered
add_authenticator_branch_always_email(user_has_phone_registered, current_step, phone_number) ==
    IF ~user_has_phone_registered /\ current_step = "InitialStep"
    THEN IF ~validate_phone_number(phone_number)
         THEN Return("Err", "GeneralFailure: Invalid phone number", "", FALSE)
         ELSE Request("add_phone_to_account")
    ELSE Request("check_email_confirmation")

\* add_authenticator once account_has_phone has answered
add_authenticator_branch(user_has_phone_registered, current_step, phone_number) ==
    IF ~user_has_phone_registered /\ current_step = "InitialStep"
    THEN \* add_phone_number
         IF ~validate_phone_number(phone_number)
         THEN Return("Err", "GeneralFailure: Invalid phone number", "", FALSE)
         ELSE Request("add_phone_to_account")
    ELSE IF ~user_has_phone_registered
    THEN Request("check_email_confirmation")
    ELSE Request("add_authenticator_to_account")

\* finalize_authenticator finalizing whatever the re-check showed
finalize_authenticator_unchecked(account_has_phone_now) == Request("finalize")

\* finalize_authenticator once the re-check of the phone has answered
finalize_authenticator_recheck(account_has_phone_now) ==
    IF ~account_has_phone_now
    THEN Return("Err", "GeneralFailure: This should not happen.", "", FALSE)
    ELSE Request("finalize")

\* the first thing an operation does when it is called
FirstStep(kind, args) ==
    CASE kind \in {"fetch_confirmations", "handle_confirmations"} ->
            Request("get_confirmations")
      [] kind = "process_confirmations" -> send_confirmations(args.selection)
      [] kind = "add_authenticator" -> Request("account_has_phone")
      [] kind = "finalize_authenticator" -> Request("check_sms")
      [] kind = "remove_authenticator" -> Request("remove_authenticator")
      [] OTHER -> Request("custom")

\* what an operation does with the service's answer a to the request it sent
AfterAnswer(o, a) ==
    LET failed == Return("Err", o.endpoint, "", FALSE)
    IN  CASE o.endpoint = "get_confirmations" ->
                IF ~a.ok THEN failed
                ELSE IF o.kind = "fetch_confirmations" THEN Return("Ok", "", "Confirmations", FALSE)
                ELSE IF Confirmations_is_empty(a.list) THEN Return("Ok", "", "", FALSE)
                ELSE send_confirmations(FilterBy(o.args.filter, a.list))
          [] o.endpoint = "send_confirmations" -> AfterActionResponse(a)
          [] o.endpoint = "account_has_phone" /\ o.kind = "add_authenticator" ->
                IF ~a.ok THEN failed
                ELSE add_authenticator_branch(a.flag, o.args.current_step, o.args.phone_number)
          [] o.endpoint = "add_phone_to_account" ->
                IF ~a.ok THEN failed
                ELSE Return("Ok", "", "EmailConfirmation", TRUE)
          [] o.endpoint = "check_email_confirmation" ->
                IF ~a.ok THEN failed ELSE Request("add_authenticator_to_account")
          [] o.endpoint = "add_authenticator_to_account" ->
                IF ~a.ok THEN failed ELSE Return("Ok", "", "MobileAuth", FALSE)
          [] o.endpoint = "check_sms" ->
                \* map_ok builds the Delay and and_then drops it unawaited
                IF ~a.ok THEN failed ELSE Request("account_has_phone")
          [] o.endpoint = "account_has_phone" /\ o.kind = "finalize_authenticator" ->
                IF ~a.ok THEN failed
                ELSE finalize_authenticator_recheck(a.flag)
          [] o.endpoint = "custom" -> Return("Ok", "", "Response", FALSE)
          [] OTHER -> IF a.ok THEN Return("Ok", "", "", FALSE) ELSE failed

\* an operation in progress: its call (kind, host, args), its position (pc,
\* step, endpoint), its locals (phone_registered, listed, selected, request,
\* rejected: the service refused the action request),
\* what it did so far (log: the requests sent and delays waited, in order)
\* and what it returned (result, error, value)
NoOp == [pc |-> "idle", kind |-> "", host |-> "", step |-> 0, result |-> "", error |-> "",
         args |-> NoArgs, endpoint |-> "", log |-> <<>>, value |-> "",
         phone_registered |-> "unknown", listed |-> None, selected |-> <<>>,
         request |-> None, rejected |-> FALSE]
NoGuard == [probe |-> "not_started", request |-> "not_sent", verdict |-> "",
            first_hop |-> None, inspected |-> None]
NoInflight == [purpose |-> "", host |-> "", hops |-> 0]
NoSent == [host |-> "", cookies |-> {}]
\* the three variables below are used by the specifications that follow one
\* function, one handshake or several clients; elsewhere they stay put
NoCalc == [fn |-> "", done |-> FALSE]
NoHandshake == [pc |-> ""]
NoFleet == [clients |-> <<>>]
Aside == <<calc, handshake, fleet>>

\* SteamAuthenticator::new: no cache, the mobile cookies in the jar, no network
InitAuthenticator ==
    /\ auth_level = "Unauthenticated"
    /\ cache = None
    /\ cookie_store = init_cookie_jar
    /\ login_pc = "idle"
    /\ login_starts = 0
    /\ attempts = 0
    /\ script = <<>>
    /\ outcomes = <<>>
    /\ retry_result = None
    /\ login_result = None
    /\ api_key_fetch = None
    /\ user \in SteamUsers
    /\ op = NoOp
    /\ guard = NoGuard
    /\ inflight = NoInflight
    /\ sent = NoSent
    /\ installed = {}

Init ==
    /\ InitAuthenticator
    /\ calc = NoCalc
    /\ handshake = NoHandshake
    /\ fleet = NoFleet

\* login() is entered: only an Unauthenticated value has it, and it is moved
login ==
    /\ auth_level = "Unauthenticated"
    /\ login_starts < MaxLogins
    /\ \E s \in Scripts(MaxAttempts) : script' = s
    /\ auth_level' = login_self(auth_level)
    /\ login_starts' = login_starts + 1
    /\ login_pc' = "retry"
    /\ attempts' = 0
    /\ outcomes' = <<>>
    /\ retry_result' = None
    /\ login_result' = None
    /\ api_key_fetch' = None
    /\ installed' = {}
    /\ UNCHANGED <<cache, cookie_store, user, op, guard, inflight, sent, Aside>>

\* one handshake attempt inside retry(..): login_and_store_cookies runs the
\* handshake; its outcome decides between resolving and another attempt
HandshakeAttempt ==
    /\ login_pc = "retry"
    /\ script # <<>>
    /\ LET o == Head(script)
           made == attempts + 1
       IN  /\ attempts' = made
           /\ outcomes' = Append(outcomes, o)
           /\ script' = Tail(script)
           /\ cookie_store' = login_website_cookies(cookie_store, o)
           /\ installed' = login_website_domains(o)
           /\ IF o.kind = "Panic"
              THEN /\ login_pc' = "panicked"
                   /\ retry_result' = None
              ELSE IF o.kind = "Success"
              THEN /\ login_pc' = "retry_done"
                   /\ retry_result' = Some([ok |-> TRUE, cache |-> login_website_cache(o),
                                            error |-> NoError])
              ELSE IF RetryDecision(o, made) = "abort"
              THEN /\ login_pc' = "retry_done"
                   /\ retry_result' = Some([ok |-> FALSE, cache |-> EmptyCache, error |-> o])
              ELSE /\ login_pc' = "retry"
                   /\ retry_result' = None
    /\ UNCHANGED <<auth_level, cache, login_starts, login_result, api_key_fetch,
                   user, op, guard, inflight, sent, Aside>>

\* retry(..).await? with an error: login() returns it as AuthError
LoginFails ==
    /\ login_pc = "retry_done"
    /\ ~Unwrap(retry_result).ok
    /\ login_pc' = "returned_err"
    /\ login_result' = Some([ok |-> FALSE, error |-> AuthError_from(Unwrap(retry_result).error)])
    /\ script' = <<>>
    /\ installed' = {}
    /\ UNCHANGED <<auth_level, cache, cookie_store, login_starts, attempts, outcomes,
                   retry_result, api_key_fetch, user, op, guard, inflight, sent,
                   Aside>>

\* retry(..) gave the cache: cache_api_key is tried, its key (if any) is set,
\* and the Authenticated value is built and returned
LoginSucceeds ==
    /\ login_pc = "retry_done"
    /\ Unwrap(retry_result).ok
    /\ \E fetched \in cache_api_key_results :
        LET value == AuthenticatedValue(
                         CacheWithApiKey(Unwrap(retry_result).cache, fetched))
        IN  /\ auth_level' = value.auth_level
            /\ cache' = value.cache
            /\ api_key_fetch' = Some(fetched)
    /\ login_pc' = "returned_ok"
    /\ login_result' = Some([ok |-> TRUE, error |-> AuthError_from(NoError)])
    /\ script' = <<>>
    /\ installed' = {}
    /\ UNCHANGED <<cookie_store, login_starts, attempts, outcomes, retry_result,
                   user, op, guard, inflight, sent, Aside>>

LoginVars == <<auth_level, cache, login_pc, login_starts, attempts, script,
               outcomes, retry_result, login_result, api_key_fetch, user, Aside>>
LoginVarsButCache == <<auth_level, login_pc, login_starts, attempts, script,
                       outcomes, retry_result, login_result, api_key_fetch, user,
                       Aside>>

\* an operation that forgets the account id it read
cache_after_operation_forgetful(self_cache, kind) ==
    IF IsSome(self_cache) /\ kind = "remove_authenticator"
    THEN Some(CachedInfo_set_steamid(Unwrap(self_cache), ""))
    ELSE self_cache

\* the cache once an authenticated operation has returned: the operations
\* take &self and only call self.cache().read(), so it is the cache they found
cache_after_operation(self_cache, kind) == self_cache

\* what the guard keeps of a response: its status class and Location header
ResponseView(a) == [redirect |-> a.redirect, location |-> a.location]

ProbeStatus(verdict) ==
    CASE verdict = "Ok(false)" -> "valid"
      [] verdict = "Ok(true)" -> "expired"
      [] verdict = "Err" -> "failed"
      [] OTHER -> "panicked"

\* MobileClient::request up to the send: the URL is parsed, the Cookie header
\* is the cookies of the URL's host, the request goes to inner_http_client
SendRequest(purpose, host, jar) ==
    /\ inflight' = [purpose |-> purpose, host |-> host, hops |-> 0]
    /\ sent' = [host |-> host, cookies |-> dump_cookies_by_domain(jar, host)]

\* the guarded request itself, once the probe said the session is valid
SendUnderlying(g, jar) ==
    IF op.host = InvalidUrl
    THEN /\ op' = [op EXCEPT !.pc = "done", !.result = "Err", !.error = "GeneralFailure"]
         /\ guard' = g
         /\ inflight' = NoInflight
         /\ sent' = sent
    ELSE /\ op' = [op EXCEPT !.log = Append(@, op.endpoint)]
         /\ guard' = [g EXCEPT !.request = "in_flight"]
         /\ SendRequest("request", op.host, jar)

\* request_with_session_guard after session_is_expired gave `verdict`
AfterProbe(g0, verdict, err, inspected, jar) ==
    LET g == [g0 EXCEPT !.verdict = verdict, !.probe = ProbeStatus(verdict),
                        !.inspected = inspected]
        d == GuardDecision(verdict)
    IN  IF d = "return_err"
        THEN /\ op' = [op EXCEPT !.pc = "done", !.result = "Err", !.error = err]
             /\ guard' = g
             /\ inflight' = NoInflight
             /\ sent' = sent
        ELSE IF d \in {"panic", "unimplemented"}
        THEN /\ op' = [op EXCEPT !.pc = "panicked", !.result = "Panic", !.error = d]
             /\ guard' = g
             /\ inflight' = NoInflight
             /\ sent' = sent
        ELSE SendUnderlying(g, jar)

\* the probe's response is a local of session_is_expired: once the guarded
\* request moves on, the guard holds it no more
Forget(g) == [g EXCEPT !.first_hop = None, !.inspected = None]

\* MobileClient::request returned Err(err)
RequestReturnsErr(g, err) ==
    IF inflight.purpose = "probe"
    THEN AfterProbe(g, "Err", err, None, cookie_store)
    ELSE /\ op' = [op EXCEPT !.pc = "done", !.result = "Err", !.error = err]
         /\ guard' = [Forget(g) EXCEPT !.request = "failed"]
         /\ inflight' = NoInflight
         /\ sent' = sent

\* the guard with the probe's first answer noted
NoteFirstHop(a) ==
    IF inflight.purpose = "probe" /\ inflight.hops = 0
    THEN [guard EXCEPT !.first_hop = Some(ResponseView(a))]
    ELSE IF inflight.purpose = "request" THEN Forget(guard)
    ELSE guard

\* the operation o carries out decision d: a guarded request starts with the
\* probe, a HEAD of the store's account page; a return ends the call, after
\* the delay the decision waits for. g is the guard a returning call leaves.
Proceed(o, d, g) ==
    IF d.do = "request"
    THEN /\ op' = [o EXCEPT
                     !.pc = "guard", !.step = @ + 1, !.endpoint = d.endpoint,
                     !.request =
                         IF d.endpoint = "send_confirmations"
                         THEN Some(send_confirmations_request(
                                      user, Unwrap(cache).steamid, o.args.action, o.selected))
                         ELSE @]
         /\ guard' = [NoGuard EXCEPT !.probe = "in_flight"]
         /\ SendRequest("probe", STEAM_STORE_HOST, cookie_store)
    ELSE /\ op' = [o EXCEPT
                     !.pc = "done", !.result = d.result, !.error = d.error,
                     !.value = d.value,
                     !.log = IF d.delay THEN Append(@, "delay") ELSE @]
         /\ guard' = g
         /\ inflight' = NoInflight
         /\ sent' = sent

\* the operation with what the answer a told it kept in its locals
Noted(o, a) ==
    [o EXCEPT
       !.phone_registered =
           IF o.endpoint = "account_has_phone" /\ a.ok
           THEN (IF a.flag THEN "yes" ELSE "no") ELSE @,
       !.rejected = IF o.endpoint = "send_confirmations" THEN ~a.ok ELSE @,
       !.listed = IF o.endpoint = "get_confirmations" /\ a.ok THEN Some(a.list) ELSE @,
       !.selected =
           IF o.endpoint = "get_confirmations" /\ a.ok /\ o.kind = "handle_confirmations"
           THEN FilterBy(o.args.filter, a.list) ELSE @]

\* an authenticated operation is called on a value whose type offers it
OpCall ==
    /\ op.pc \in {"idle", "done"}
    /\ \E kind \in OpKinds : \E host \in OpTargets(kind) : \E args \in ArgsOf(kind) :
        /\ Exposed(kind, auth_level, user.ma_file)
        /\ Proceed([NoOp EXCEPT !.kind = kind, !.host = host, !.args = args,
                                !.selected = args.selection],
                   FirstStep(kind, args), NoGuard)
    /\ cache' = IF op'.pc = "done" THEN cache_after_operation(cache, op'.kind) ELSE cache
    /\ installed' = {}
    /\ UNCHANGED <<cookie_store, LoginVarsButCache>>

\* the transport fails: execute returns an error, no cookie is stored
ExecuteError ==
    /\ inflight.purpose # ""
    /\ RequestReturnsErr(guard, "Network")
    /\ installed' = {}
    /\ UNCHANGED <<cookie_store, LoginVars>>

\* the service answers with a redirect the HTTP client can follow: the policy
\* follows it or gives up with an error
ExecuteRedirect ==
    /\ inflight.purpose # ""
    /\ \E a \in Answers :
        /\ Followable(a)
        /\ a.cookies = <<>>   \* a followed response's cookies never reach request()
        /\ LET l == Unwrap(a.location)
               act == RedirectAction(inflight.hops, l)
           IN  IF act = "Follow"
               THEN /\ inflight' = [inflight EXCEPT
                                      !.hops = @ + 1,
                                      !.host = IF l.form = "abs" THEN l.host ELSE @]
                    /\ guard' = NoteFirstHop(a)
                    /\ UNCHANGED <<op, sent>>
               ELSE RequestReturnsErr(NoteFirstHop(a), act)
    /\ installed' = {}
    /\ UNCHANGED <<cookie_store, LoginVars>>

\* the service's answer is the response execute returns: request stores its
\* cookies under the host of the response's URL; a probe's response is judged
ExecuteResponse ==
    /\ inflight.purpose # ""
    /\ \E a \in Answers :
        /\ ~Followable(a)
        \* only the guard looks at the status and the Location of a response
        /\ inflight.purpose = "request" => (~a.redirect /\ a.location = None)
        /\ LET jar == StoreResponseCookies(cookie_store, inflight.host, a.cookies)
           IN  /\ cookie_store' = jar
               /\ installed' = IF a.cookies = <<>> THEN {} ELSE {inflight.host}
               /\ IF inflight.purpose = "probe"
                  THEN AfterProbe(NoteFirstHop(a), session_is_expired(a), "",
                                  Some(ResponseView(a)), jar)
                  ELSE /\ op' = [op EXCEPT !.pc = "answered"]
                       /\ guard' = [Forget(guard) EXCEPT !.request = "answered"]
                       /\ inflight' = NoInflight
                       /\ sent' = sent
    /\ UNCHANGED LoginVars

\* the operation reads the answer and goes on to its next guarded request
OpContinue ==
    /\ op.pc = "answered"
    /\ \E a \in ServiceAnswers(op.endpoint) :
        /\ AfterAnswer(op, a).do = "request"
        /\ Proceed(Noted(op, a), AfterAnswer(op, a), guard)
    /\ installed' = {}
    /\ UNCHANGED <<cookie_store, LoginVars>>

\* the operation reads the answer and returns what it made of it
OpReturn ==
    /\ op.pc = "answered"
    /\ \E a \in ServiceAnswers(op.endpoint) :
        /\ AfterAnswer(op, a).do = "return"
        /\ Proceed(Noted(op, a), AfterAnswer(op, a), guard)
    /\ cache' = cache_after_operation(cache, op.kind)
    /\ installed' = {}
    /\ UNCHANGED <<cookie_store, LoginVarsButCache>>

Next ==
    \/ login
    \/ HandshakeAttempt
    \/ LoginFails
    \/ LoginSucceeds
    \/ OpCall
    \/ ExecuteError
    \/ ExecuteRedirect
    \/ ExecuteResponse
    \/ OpContinue
    \/ OpReturn

Spec == Init /\ [][Next]_vars

-----------------------------------------------------------------------------
(* Properties.                                                             *)

\* the whole scripted transport of the current login: what was consumed so
\* far followed by what is still to come
FullScript == outcomes \o script

\* C1: on an instance login() is entered at most once (so two logins never
\* run on it at the same time), and an instance that has left the
\* Unauthenticated state - moved into login(), or Authenticated - is never
\* Unauthenticated again.
C1_LoginOnceNoRegress ==
    /\ [](login_starts <= 1)
    /\ [][auth_level # "Unauthenticated" => auth_level' # "Unauthenticated"]_vars

\* C1 witness: login() was entered, succeeded, and an operation ran afterwards.
C1_Witness ==
    /\ login_starts = 1
    /\ auth_level = "Authenticated"
    /\ op.pc = "done"

\* C2: the authenticator holds a session cache exactly when it is
\* Authenticated; a login that returned an error left none.
C2_CacheIffAuthenticated ==
    /\ IsSome(cache) <=> auth_level = "Authenticated"
    /\ login_pc = "returned_err" => cache = None

\* C2 witness: login() returned Ok and the Authenticated value has its cache.
C2_Witness ==
    /\ login_pc = "returned_ok"
    /\ auth_level = "Authenticated"
    /\ IsSome(cache)

\* C3: an attempt that ended in CaptchaRequired, IncorrectCredentials or
\* GeneralFailure is the only attempt of its login: the retry resolves to that
\* very error at once, and login() returns it, wrapped and unchanged.
C3_PermanentNotRetried ==
    \A i \in 1..Len(outcomes) :
        IsPermanent(outcomes[i]) =>
            /\ i = 1
            /\ attempts = 1
            /\ login_pc \in {"retry_done", "returned_err"}
            /\ login_pc = "retry_done" =>
                   retry_result = Some([ok |-> FALSE, cache |-> EmptyCache,
                                        error |-> outcomes[i]])
            /\ login_pc = "returned_err" =>
                   login_result = Some([ok |-> FALSE,
                                        error |-> AuthError_from(outcomes[i])])

\* C3 witness: login() returned after a captcha demand.
C3_Witness ==
    /\ login_pc = "returned_err"
    /\ outcomes # <<>>
    /\ outcomes[1].kind = "CaptchaRequired"

\* C4 (as claimed): when the transport fails transiently on attempts 1..N and
\* succeeds on attempt N+1, N within the attempt bound, the retry resolves
\* after exactly N+1 attempts, with success.
C4_TransientRetriedUntilSuccess ==
    login_pc = "retry_done" =>
        \A n \in 0..(MaxAttempts - 1) :
            ( /\ \A i \in 1..n : IsTransient(FullScript[i])
              /\ FullScript[n + 1].kind = "Success" )
            => ( attempts = n + 1 /\ Unwrap(retry_result).ok )

\* C5 (as claimed): a login() that was entered and has not returned can still
\* move on towards returning, and never makes more attempts than the bound.
C5_LoginReturns ==
    /\ attempts <= MaxAttempts
    /\ login_pc \notin {"idle", "returned_ok", "returned_err"} =>
           ENABLED (HandshakeAttempt \/ LoginFails \/ LoginSucceeds)

\* C6 (as claimed): when the probe says the session is expired, the guarded
\* operation returns the SessionExpired error, the request is not sent and
\* login is not entered again.
C6_ExpiredReturnsSessionExpired ==
    guard.verdict = "Ok(true)" =>
        /\ op.pc = "done"
        /\ op.result = "Err"
        /\ op.error = "SessionExpired"
        /\ guard.request = "not_sent"
        /\ login_starts = 1

\* the verdict the expiry policy gives a response
ClaimedVerdict(view) ==
    IF /\ IsSome(view.location)
       /\ \/ Unwrap(view.location).host = "lostauth"
          \/ StartsWith(Unwrap(view.location).path, LoginPrefix)
    THEN "Ok(true)" ELSE "Ok(false)"

\* C7 (as claimed): the verdict on the response the guard inspected is
\* "expired" exactly when its redirect target has the host lostauth or a path
\* that starts with /login; any other target, and no target, is "not expired".
C7_ExpiryVerdict ==
    IsSome(guard.inspected) =>
        guard.verdict = ClaimedVerdict(Unwrap(guard.inspected))

\* C8: in every authenticated operation the request is sent only after the
\* probe has completed and found the session valid; when the probe failed
\* the operation returns the error and the request is never sent.
C8_ProbeBeforeRequest ==
    /\ guard.request # "not_sent" => guard.probe = "valid"
    /\ inflight.purpose = "request" => guard.probe = "valid"
    /\ guard.probe = "failed" =>
           /\ guard.request = "not_sent"
           /\ op.pc = "done"
           /\ op.result = "Err"

\* C8 witness: a confirmation listing whose probe passed got its answer.
C8_Witness ==
    /\ op.kind = "fetch_confirmations"
    /\ guard.probe = "valid"
    /\ guard.request = "answered"

\* C9 (as claimed): when the account endpoint answers the probe with a
\* redirect, the response the guard inspects is that first answer, and the
\* expiry predicate sees its redirect target.
C9_ProbeInspectsFirstHop ==
    ( /\ IsSome(guard.inspected)
      /\ IsSome(guard.first_hop)
      /\ Unwrap(guard.first_hop).redirect )
    => guard.inspected = guard.first_hop

\* C10 (as claimed): the Cookie header of a request to a host holds only
\* cookies stored under that host, and a step that adds cookies under other
\* domains leaves the header for this one as it was.
C10_DomainIsolation ==
    [][ /\ sent' # sent =>
            \A c \in sent'.cookies :
                \E x \in CookieJar_iter(cookie_store') :
                    x.domain = sent'.host /\ x.name = c.name /\ x.value = c.value
        /\ \A d \in RequestHosts :
            d \notin installed' =>
                dump_cookies_by_domain(cookie_store', d)
                    = dump_cookies_by_domain(cookie_store, d) ]_vars

\* the names of the session cookies the handshake installs per host
SessionCookieNames == {"steamLoginSecure", "steamLogin", "sessionid", "timezoneOffset"}

\* C11 (as claimed): once a handshake attempt has succeeded, a lookup qualified
\* by any of the three session hosts finds each of the four session cookies:
\* every host holds its own copy, none replaced by the copy of another host.
C11_SessionCookiesPerDomain ==
    ( /\ login_pc = "retry_done"
      /\ Unwrap(retry_result).ok )
    => \A i \in 1..Len(SessionHosts) :
           \A n \in SessionCookieNames :
               IsSome(get_cookie_value(SessionHosts[i], n))

\* C12 (as claimed): the cookie store and the session cache are written only
\* once the whole operation has succeeded: a step of an authenticated
\* operation changes them only if the operation returns success with it, and
\* a handshake attempt that ends in an error changes neither.
C12_FailureLeavesStateUnchanged ==
    [][ /\ ( /\ op'.pc \notin {"idle"}
             /\ UNCHANGED LoginVars
             /\ ~(op'.pc = "done" /\ op'.result = "Ok") )
           => ( cookie_store' = cookie_store /\ cache' = cache )
        /\ ( /\ attempts' = attempts + 1
             /\ outcomes'[attempts'].kind \notin {"Success", "Panic"} )
           => ( cookie_store' = cookie_store /\ cache' = cache ) ]_vars

\* C13: after a successful login the session cache is populated and its
\* account id is the steamid of the login response that was classified
\* Success.
C13_CacheHoldsSteamId ==
    login_pc = "returned_ok" =>
        /\ IsSome(cache)
        /\ outcomes # <<>>
        /\ outcomes[Len(outcomes)].kind = "Success"
        /\ Unwrap(cache).steamid = outcomes[Len(outcomes)].data
        /\ Unwrap(cache).steamid \in SteamIds

\* C13 witness: login() returned Ok for the second of the scripted accounts.
C13_Witness ==
    /\ login_pc = "returned_ok"
    /\ IsSome(cache)
    /\ Unwrap(cache).steamid = "76561197960265730"

\* C14: the API-key fetch is made only once the handshake has succeeded;
\* a succeeded handshake always lets login() return, and it returns an
\* Authenticated authenticator whether the fetch gave a key or not;
\* afterwards api_key() gives exactly what the fetch gave.
C14_ApiKeyBestEffort ==
    /\ IsSome(api_key_fetch) =>
           /\ IsSome(retry_result)
           /\ Unwrap(retry_result).ok
           /\ login_pc = "returned_ok"
    /\ (login_pc = "retry_done" /\ Unwrap(retry_result).ok) =>
           /\ api_key_fetch = None
           /\ \A fetched \in cache_api_key_results :
                  ENABLED ( /\ LoginSucceeds
                            /\ api_key_fetch' = Some(fetched)
                            /\ auth_level' = "Authenticated" )
    /\ login_pc = "returned_ok" =>
           /\ auth_level = "Authenticated"
           /\ IsSome(api_key_fetch)
           /\ api_key(cache) = Unwrap(api_key_fetch)

\* C14 witness: the fetch gave no key and login() returned Authenticated, with
\* api_key() giving None.
C14_Witness ==
    /\ login_pc = "returned_ok"
    /\ auth_level = "Authenticated"
    /\ api_key_fetch = Some(None)
    /\ api_key(cache) = None

\* how many times event e is in the log
RECURSIVE Count(_, _)
Count(log, e) ==
    IF log = <<>> THEN 0
    ELSE (IF Head(log) = e THEN 1 ELSE 0) + Count(Tail(log), e)

\* the position of the first e in the log, 0 when there is none
RECURSIVE IndexOf(_, _)
IndexOf(log, e) ==
    IF log = <<>> THEN 0
    ELSE IF Head(log) = e THEN 1
    ELSE IF IndexOf(Tail(log), e) = 0 THEN 0 ELSE 1 + IndexOf(Tail(log), e)

\* C15: a confirmation operation is only ever in progress, and a listing or
\* action request only ever issued, on an authenticator that is Authenticated
\* and whose identity holds the identity secret and the device id.
C15_ConfirmationsNeedSecrets ==
    ( \/ op.kind \in ConfirmationOps
      \/ op.endpoint \in {"get_confirmations", "send_confirmations"}
      \/ IsSome(op.request) )
    => /\ auth_level = "Authenticated"
       /\ user.ma_file = "PresentMaFile"
       /\ IsSome(user.identity_secret)
       /\ IsSome(user.device_id)

\* C15 witness: the action request of handle_confirmations went out.
C15_Witness ==
    /\ op.kind = "handle_confirmations"
    /\ Count(op.log, "send_confirmations") = 1
    /\ user.ma_file = "PresentMaFile"

\* the tag the claim gives an action
ClaimedTag(action) == IF action = "Accept" THEN "allow" ELSE "cancel"

\* C16 (as claimed): an action request carries the tag of its action, "allow"
\* for Accept and "cancel" for Deny, is signed with that tag, and has the same
\* word in its op field.
C16_ActionTag ==
    IsSome(op.request) =>
        LET r == Unwrap(op.request)
        IN  /\ r.tag = ClaimedTag(op.args.action)
            /\ r.confirmation_hash =
                   generate_confirmation_hash(user.identity_secret,
                                              ClaimedTag(op.args.action), r.time)
            /\ r.operation = Some(ClaimedTag(op.args.action))

\* C17: a call that acts on a non-empty selection sends at most one action
\* request, and exactly one once it returned success; the request holds, in
\* the order of the selection, the id and the key of each selected
\* confirmation as index-aligned pairs, and nothing of an unselected one.
C17_OneBatchedRequest ==
    op.kind \in {"process_confirmations", "handle_confirmations"} =>
        /\ Count(op.log, "send_confirmations") <= 1
        /\ (op.pc = "done" /\ op.result = "Ok" /\ op.selected # <<>>)
               => Count(op.log, "send_confirmations") = 1
        /\ Count(op.log, "send_confirmations") = 1 =>
               /\ op.selected # <<>>
               /\ IsSome(op.request)
               /\ LET r == Unwrap(op.request)
                  IN  /\ Len(r.confirmation_id) = Len(op.selected)
                      /\ Len(r.confirmation_key) = Len(op.selected)
                      /\ \A i \in 1..Len(op.selected) :
                             /\ r.confirmation_id[i] =
                                    <<IndexedName("id", i), op.selected[i].id>>
                             /\ r.confirmation_key[i] =
                                    <<IndexedName("key", i), op.selected[i].key>>
               /\ op.kind = "handle_confirmations" =>
                      /\ IsSome(op.listed)
                      /\ op.selected = FilterBy(op.args.filter, Unwrap(op.listed))

\* C17 witness: handle_confirmations with the trade filter accepted the two
\* trades of a listing of three.
C17_Witness ==
    /\ op.kind = "handle_confirmations"
    /\ op.args.filter = "trade"
    /\ IsSome(op.listed)
    /\ Len(Unwrap(op.listed)) = 3
    /\ Len(op.selected) = 2
    /\ op.pc = "done"
    /\ op.result = "Ok"

\* C18: acting on nothing - process_confirmations given no confirmation,
\* handle_confirmations whose listing is empty or whose filter selects
\* nothing - returns success and sends no action request.
C18_EmptySelectionIsNoop ==
    /\ (op.kind = "process_confirmations" /\ op.args.selection = <<>>) =>
           /\ op.pc = "done"
           /\ op.result = "Ok"
           /\ op.log = <<>>
    /\ ( /\ op.kind = "handle_confirmations"
         /\ IsSome(op.listed)
         /\ (Unwrap(op.listed) = <<>> \/ op.selected = <<>>) ) =>
           /\ op.pc = "done"
           /\ op.result = "Ok"
           /\ Count(op.log, "send_confirmations") = 0

\* C18 witness: the listing had three confirmations and the filter chose none.
C18_Witness ==
    /\ op.kind = "handle_confirmations"
    /\ IsSome(op.listed)
    /\ Len(Unwrap(op.listed)) = 3
    /\ op.selected = <<>>
    /\ op.pc = "done"

\* C19: a call sends at most one action request; when the service rejected
\* it the call has returned an error, and a call whose listing failed
\* returned an error without any action request.
C19_RejectionNotRetried ==
    /\ Count(op.log, "send_confirmations") <= 1
    /\ op.rejected =>
           /\ op.pc = "done"
           /\ op.result = "Err"
           /\ Count(op.log, "send_confirmations") = 1
    /\ ( /\ op.kind = "handle_confirmations"
         /\ op.pc = "done"
         /\ op.endpoint = "get_confirmations"
         /\ Count(op.log, "get_confirmations") = 1
         /\ ~IsSome(op.listed) ) =>
           /\ op.result = "Err"
           /\ Count(op.log, "send_confirmations") = 0

\* C19 witness: the service rejected the action request of a Deny.
C19_Witness ==
    /\ op.rejected
    /\ op.args.action = "Deny"
    /\ op.pc = "done"
    /\ op.result = "Err"

\* C20: add_authenticator on an account without a phone. Called with
\* InitialStep it sends no e-mail signal and no attachment request, and
\* returns EmailConfirmation once it has added the phone and waited the
\* delay; with an invalid phone number it sends no add-phone request and
\* returns an error. Called with EmailConfirmation it adds no phone, sends
\* the e-mail signal before the attachment request, and returns MobileAuth
\* after exactly these two.
C20_AddAuthenticatorDialogue ==
    (op.kind = "add_authenticator" /\ op.phone_registered = "no") =>
        /\ op.args.current_step = "InitialStep" =>
               /\ Count(op.log, "check_email_confirmation") = 0
               /\ Count(op.log, "add_authenticator_to_account") = 0
               /\ (op.pc = "done" /\ op.result = "Ok") =>
                      /\ op.value = "EmailConfirmation"
                      /\ op.log = <<"account_has_phone", "add_phone_to_account", "delay">>
               /\ ~validate_phone_number(op.args.phone_number) =>
                      /\ Count(op.log, "add_phone_to_account") = 0
                      /\ op.pc = "done"
                      /\ op.result = "Err"
        /\ op.args.current_step = "EmailConfirmation" =>
               /\ Count(op.log, "add_phone_to_account") = 0
               /\ Count(op.log, "add_authenticator_to_account") = 1 =>
                      /\ Count(op.log, "check_email_confirmation") = 1
                      /\ IndexOf(op.log, "check_email_confirmation")
                             < IndexOf(op.log, "add_authenticator_to_account")
               /\ (op.pc = "done" /\ op.result = "Ok") =>
                      /\ op.value = "MobileAuth"
                      /\ op.log = <<"account_has_phone", "check_email_confirmation",
                                    "add_authenticator_to_account">>

\* C20 witness: the second turn of the dialogue returned the secret bundle.
C20_Witness ==
    /\ op.kind = "add_authenticator"
    /\ op.phone_registered = "no"
    /\ op.args.current_step = "EmailConfirmation"
    /\ op.pc = "done"
    /\ op.value = "MobileAuth"

\* C21: finalize_authenticator sends the finalize request only as its third
\* request, after the SMS check and one re-check that showed the phone; it
\* re-checks at most once; when the SMS check did not pass, or the re-check
\* showed no phone, it has returned an error and sent no finalize request.
C21_FinalizeAfterSingleRecheck ==
    op.kind = "finalize_authenticator" =>
        /\ Count(op.log, "account_has_phone") <= 1
        /\ Count(op.log, "finalize") <= 1
        /\ Count(op.log, "finalize") = 1 =>
               /\ op.log = <<"check_sms", "account_has_phone", "finalize">>
               /\ op.phone_registered = "yes"
        /\ op.phone_registered = "no" =>
               /\ op.pc = "done"
               /\ op.result = "Err"
               /\ op.log = <<"check_sms", "account_has_phone">>
        /\ (op.pc = "done" /\ op.endpoint = "check_sms") =>
               /\ op.result = "Err"
               /\ Count(op.log, "account_has_phone") = 0
               /\ Count(op.log, "finalize") = 0

\* C21 witness: the re-check showed no phone and the call returned its error.
C21_Witness ==
    /\ op.kind = "finalize_authenticator"
    /\ op.phone_registered = "no"
    /\ op.pc = "done"
    /\ op.result = "Err"

-----------------------------------------------------------------------------
(* The one-time-code generator (section 4.3), followed call by call.       *)

\* the variables of the authenticator, which the specifications below leave
\* where SteamAuthenticator::new put them
Authenticator == <<auth_level, cache, cookie_store, login_pc, login_starts,
                   attempts, script, outcomes, retry_result, login_result,
                   api_key_fetch, user, op, guard, inflight, sent, installed>>

\* decoded shared secrets (Secret::from_b64) and synchronized times in seconds
SharedSecrets == {17, 905}
Times == {0, 1, 29, 30, 31, 59, 60, 61, 89}

\* the service's restricted alphabet
CodeAlphabet ==
    << "2", "3", "4", "5", "6", "7", "8", "9", "B", "C", "D", "F", "G", "H",
       "J", "K", "M", "N", "P", "Q", "R", "T", "V", "W", "X", "Y" >>

\* a counter that changes with every second
TimeStepPerSecond(time) == time

\* the time-step counter: floor(time / 30)
TimeStep(time) == time \div 30

\* the keyed hash of the counter, truncated to 31 bits: a mixing function
\* stands for HMAC-SHA1 and its dynamic truncation
KeyedHash(secret, counter) == ((secret * 31 + counter) * 48271) % 2147483647

\* the code rendered over the alphabet, least significant digit first
RECURSIVE RenderCode(_, _)
RenderCode(fullcode, n) ==
    IF n = 0 THEN ""
    ELSE CodeAlphabet[(fullcode % Len(CodeAlphabet)) + 1]
         \o RenderCode(fullcode \div Len(CodeAlphabet), n - 1)

\* steam_totp::generate_auth_code(secret, time)
generate_auth_code(secret, time) ==
    RenderCode(KeyedHash(secret, TimeStep(time)), 5)

\* two calls of the generator, one after the other
InitTotp ==
    /\ InitAuthenticator
    /\ handshake = NoHandshake
    /\ fleet = NoFleet
    /\ \E s1 \in SharedSecrets, s2 \in SharedSecrets, t1 \in Times, t2 \in Times :
        calc = [fn |-> "generate_auth_code", done |-> FALSE, calls |-> 0,
                secret |-> <<s1, s2>>, time |-> <<t1, t2>>, code |-> <<"", "">>]

FirstCode ==
    /\ calc.fn = "generate_auth_code"
    /\ calc.calls = 0
    /\ calc' = [calc EXCEPT !.calls = 1,
                    !.code[1] = generate_auth_code(calc.secret[1], calc.time[1])]
    /\ UNCHANGED <<Authenticator, handshake, fleet>>

SecondCode ==
    /\ calc.fn = "generate_auth_code"
    /\ calc.calls = 1
    /\ calc' = [calc EXCEPT !.calls = 2, !.done = TRUE,
                    !.code[2] = generate_auth_code(calc.secret[2], calc.time[2])]
    /\ UNCHANGED <<Authenticator, handshake, fleet>>

NextTotp ==
    \/ FirstCode
    \/ SecondCode

SpecTotp == InitTotp /\ [][NextTotp]_vars

-----------------------------------------------------------------------------
(* steamid-parser: SteamID and its conversions, on bit vectors.            *)

\* the w bits of n, most significant first (view_bits::<Msb0>); n is below
\* 2^31, so the bits above the 31st are zero
Bits(n, w) ==
    [i \in 1..w |-> IF w - i > 30 THEN 0 ELSE (n \div 2^(w - i)) % 2]

\* BitField::load::<u64>: the bits as the low end of a 64-bit word
Load64(bits) == Bits(0, 64 - Len(bits)) \o bits

\* u64 addition (wrapping), bit by bit from the least significant end
U64Add(a, b, carry_in) ==
    LET carry[i \in 1..65] ==
            IF i = 65 THEN carry_in ELSE (a[i] + b[i] + carry[i + 1]) \div 2
    IN  [i \in 1..64 |-> (a[i] + b[i] + carry[i + 1]) % 2]

\* u64 multiplication by two
U64Double(a) == Tail(a) \o <<0>>

\* EUniverse::Public and EAccountType::Individual, the defaults of from_steam3
EUniverse_Public == 1
EAccountType_Individual == 1

\* SteamID::from_steam64
from_steam64(steam64) ==
    [account_id |-> steam64[64],
     account_number |-> SubSeq(steam64, 33, 63),
     account_instance |-> SubSeq(steam64, 13, 32),
     account_type |-> SubSeq(steam64, 9, 12),
     universe |-> SubSeq(steam64, 1, 8)]

\* SteamID::to_steam64: the fields are concatenated and the word is loaded
\* from vec[1..], that is without the first bit
to_steam64(self) ==
    LET vec == self.universe \o self.account_type \o self.account_instance
               \o self.account_number \o <<self.account_id>>
    IN  Load64(Tail(vec))

\* SteamID::to_steam3: z * 2 + y
to_steam3(self) ==
    LET z == Load64(self.account_number)
        y == Load64(<<self.account_id>>)
    IN  U64Add(U64Double(z), y, 0)

\* from_steam3 keeping the whole of steam3 as the account number
from_steam3_number_unhalved(steam3) ==
    [account_id |-> steam3[32],
     account_number |-> SubSeq(Load64(steam3), 34, 64),
     account_instance |-> SubSeq(Bits(1, 64), 45, 64),
     account_type |-> SubSeq(Bits(EAccountType_Individual, 64), 61, 64),
     universe |-> SubSeq(Bits(EUniverse_Public, 64), 57, 64)]

\* SteamID::from_steam3(steam3, Some(universe), Some(account_type)) on a
\* u32: steam3 - parity_check clears the last bit and the division by two
\* shifts the rest down
from_steam3_of(steam3, universe, account_type) ==
    LET parity_check == steam3[32]
        account_number == Load64(<<0>> \o SubSeq(steam3, 1, 31))
    IN  [account_id |-> parity_check,
         account_number |-> SubSeq(account_number, 34, 64),
         account_instance |-> SubSeq(Bits(1, 64), 45, 64),
         account_type |-> SubSeq(Bits(account_type, 64), 61, 64),
         universe |-> SubSeq(Bits(universe, 64), 57, 64)]

\* SteamID::from_steam3(steam3, None, None): Public universe, Individual
from_steam3(steam3) ==
    from_steam3_of(steam3, EUniverse_Public, EAccountType_Individual)

\* AccountType::new: the EAccountType of a type letter, None for a letter it
\* does not list
AccountType_new(identifier) ==
    CASE identifier = "A" -> Some(4)
      [] identifier = "G" -> Some(3)
      [] identifier = "M" -> Some(2)
      [] identifier = "P" -> Some(5)
      [] identifier = "C" -> Some(6)
      [] identifier = "g" -> Some(7)
      [] identifier = "T" -> Some(8)
      [] identifier = "I" -> Some(0)
      [] identifier = "U" -> Some(1)
      [] identifier = "a" -> Some(10)
      [] OTHER -> None

\* str::parse::<u32> on the digit strings used below: the number as 32
\* bits, None when it does not fit
u32_parse(digits) ==
    CASE digits = "0" -> Some(Bits(0, 32))
      [] digits = "132276035" -> Some(Bits(132276035, 32))
      [] digits = "4294967295" -> Some(Bits(15, 4) \o Bits(268435455, 28))
      [] OTHER -> None
AccountDigits == {"0", "132276035", "4294967295", "4294967296", "99999999999"}

\* u64::from_str on a match of REGEX_STEAM64: 17 digits always fit
u64_from_str(digits) ==
    CASE digits = "76561198092541763" -> Bits(17825793, 32) \o Bits(132276035, 32)
      [] digits = "71296452818632704" -> Bits(16599999, 32) \o Bits(0, 32)
Steam64Digits == {"76561198092541763", "71296452818632704"}

\* input texts, by what the two patterns find in them: the first Steam3
\* token [T:U:N] if there is one (REGEX_STEAM3 takes the letters
\* AGMPCgcLTIUai, universes 0 to 4 and any digits), the first 7 followed by
\* 16 digits if any
ParseTexts ==
    [steam3 : {None} \cup {Some([type |-> t, universe |-> u, account |-> n]) :
                              t \in {"U", "g", "a", "c", "L", "i"}, u \in {0, 1, 4},
                              n \in AccountDigits},
     steam64 : {None} \cup {Some(d) : d \in Steam64Digits}]

ParseResult(kind, id) == [kind |-> kind, id |-> id]

\* SteamID::parse; "Panic" is one of its unwrap() calls on None or Err
SteamID_parse(steamid) ==
    IF IsSome(steamid.steam3)
    THEN LET captures == Unwrap(steamid.steam3)
             account_number == u32_parse(captures.account)
             account_type == AccountType_new(captures.type)
         IN  IF ~IsSome(account_number) \/ ~IsSome(account_type)
             THEN ParseResult("Panic", from_steam64(Bits(0, 64)))
             ELSE ParseResult("Some", from_steam3_of(Unwrap(account_number),
                                          captures.universe, Unwrap(account_type)))
    ELSE IF IsSome(steamid.steam64)
    THEN ParseResult("Some", from_steam64(u64_from_str(Unwrap(steamid.steam64))))
    ELSE ParseResult("None", from_steam64(Bits(0, 64)))

\* 64-bit identifiers, field by field, and 32-bit account numbers; the two
\* accounts of the crate's tests are among them
Steam64Inputs ==
    { Bits(u, 8) \o Bits(t, 4) \o Bits(i, 20) \o Bits(n, 31) \o <<y>> :
        u \in {0, 1, 4, 128, 255}, t \in {1, 7}, i \in {0, 1},
        n \in {0, 12284834, 66138017, 2147483647}, y \in {0, 1} }
Steam3Inputs ==
    { Bits(a, 4) \o Bits(b, 28) :
        a \in 0..15, b \in {0, 1, 2, 3, 24569668, 132276035} }

NoSteamID == from_steam64(Bits(0, 64))

InitSteamID ==
    /\ InitAuthenticator
    /\ handshake = NoHandshake
    /\ fleet = NoFleet
    /\ \/ \E x \in Steam64Inputs :
            calc = [fn |-> "from_steam64", done |-> FALSE, calls |-> 0, input |-> x,
                    steamid |-> NoSteamID, steam64 |-> <<>>, steam3 |-> <<>>]
       \/ \E w \in Steam3Inputs :
            calc = [fn |-> "from_steam3", done |-> FALSE, calls |-> 0, input |-> w,
                    steamid |-> NoSteamID, steam64 |-> <<>>, steam3 |-> <<>>]
       \/ \E text \in ParseTexts :
            calc = [fn |-> "parse", done |-> FALSE, calls |-> 0, input |-> text,
                    result |-> ParseResult("", NoSteamID)]

\* SteamID::from_steam64(x), then to_steam64() and to_steam3() on it
RoundTripSteam64 ==
    /\ calc.fn = "from_steam64"
    /\ ~calc.done
    /\ LET steamid == from_steam64(calc.input)
       IN  calc' = [calc EXCEPT !.done = TRUE, !.calls = 1, !.steamid = steamid,
                        !.steam64 = to_steam64(steamid),
                        !.steam3 = to_steam3(steamid)]
    /\ UNCHANGED <<Authenticator, handshake, fleet>>

\* SteamID::from_steam3(w, None, None), then to_steam64() on it
FromSteam3 ==
    /\ calc.fn = "from_steam3"
    /\ calc.calls = 0
    /\ LET steamid == from_steam3(calc.input)
       IN  calc' = [calc EXCEPT !.calls = 1, !.steamid = steamid,
                        !.steam64 = to_steam64(steamid)]
    /\ UNCHANGED <<Authenticator, handshake, fleet>>

\* SteamID::from_steam64 of the identifier just produced, then to_steam3()
BackToSteam3 ==
    /\ calc.fn = "from_steam3"
    /\ calc.calls = 1
    /\ LET steamid == from_steam64(calc.steam64)
       IN  calc' = [calc EXCEPT !.calls = 2, !.done = TRUE, !.steamid = steamid,
                        !.steam3 = to_steam3(steamid)]
    /\ UNCHANGED <<Authenticator, handshake, fleet>>

\* SteamID::parse(text)
ParseText ==
    /\ calc.fn = "parse"
    /\ ~calc.done
    /\ calc' = [calc EXCEPT !.done = TRUE, !.calls = 1,
                    !.result = SteamID_parse(calc.input)]
    /\ UNCHANGED <<Authenticator, handshake, fleet>>

NextSteamID ==
    \/ RoundTripSteam64
    \/ FromSteam3
    \/ BackToSteam3
    \/ ParseText

SpecSteamID == InitSteamID /\ [][NextSteamID]_vars

\* C24 (as claimed): for every 64-bit identifier x,
\* SteamID::from_steam64(x).to_steam64() = x.
C24_Steam64RoundTrip ==
    (calc.fn = "from_steam64" /\ calc.done) => calc.steam64 = calc.input

\* 76561197960265728 = 0x0110_0001_0000_0000, as a 64-bit word
Steam64Identifier == Bits(17825793, 32) \o Bits(0, 32)

\* C25: for every 32-bit account number w, from_steam3(w, None, None)
\* .to_steam64() = 76561197960265728 + w, and from_steam64 of that identifier
\* has to_steam3() = w.
C25_Steam3ToSteam64AndBack ==
    /\ (calc.fn = "from_steam3" /\ calc.calls >= 1)
           => calc.steam64 = U64Add(Steam64Identifier, Load64(calc.input), 0)
    /\ (calc.fn = "from_steam3" /\ calc.done)
           => calc.steam3 = Load64(calc.input)

\* the even account of the crate's tests: 24569668 gives 76561197984835396
\* and comes back
C25_Witness ==
    /\ calc.fn = "from_steam3"
    /\ calc.done
    /\ calc.input = Bits(24569668, 32)
    /\ calc.steam64 = Bits(17825793, 32) \o Bits(24569668, 32)
    /\ calc.steam3 = Load64(calc.input)

-----------------------------------------------------------------------------
(* types.rs: the classification of the credential submission's answer.     *)

\* JSON values of the members a response text may have
Absent == [t |-> "absent", v |-> ""]
JBool(b) == [t |-> "bool", v |-> b]
JString(s) == [t |-> "string", v |-> s]
JNumber(n) == [t |-> "number", v |-> n]

IncorrectPhrase ==
    "The account name or password that you have entered is incorrect."

\* the nested JSON of the oauth member, and the Oauth it decodes to
OauthTexts == {"{oauth of 76561197960265729}"}
OauthOf(s) ==
    [steamid |-> "76561197960265729", account_name |-> "account",
     oauth_token |-> "oauth_token", wgtoken |-> "wgtoken",
     wgtoken_secure |-> "wgtoken_secure"]

MemberNames ==
    {"success", "requires_twofactor", "redirect_uri", "login_complete", "oauth",
     "message", "captcha_needed", "captcha_gid"}

\* a response text: a JSON object with some of the members, or another body
JsonText(members) ==
    [json |-> TRUE, body |-> "",
     members |-> [n \in MemberNames |->
                     IF n \in DOMAIN members THEN members[n] ELSE Absent]]
PlainText(body) ==
    [json |-> FALSE, body |-> body, members |-> [n \in MemberNames |-> Absent]]

\* the members that come with the token block, the captcha members, the
\* message and the success flag a text may carry
TokenParts ==
    { <<>>,
      [requires_twofactor |-> JBool(FALSE), redirect_uri |-> JString("steammobile://"),
       login_complete |-> JBool(TRUE), oauth |-> JString("{oauth of 76561197960265729}")],
      [requires_twofactor |-> JBool(FALSE), redirect_uri |-> JString("steammobile://"),
       login_complete |-> JBool(TRUE), oauth |-> JString("not a json object")],
      [requires_twofactor |-> JBool(TRUE)] }
CaptchaParts ==
    { <<>>,
      [captcha_needed |-> JBool(TRUE), captcha_gid |-> JString("guid1")],
      [captcha_needed |-> JBool(FALSE), captcha_gid |-> JString("-1")],
      [captcha_needed |-> JBool(FALSE), captcha_gid |-> JNumber(-1)] }
MessageParts ==
    { <<>>, [message |-> JString(IncorrectPhrase)], [message |-> JString("other")] }
SuccessParts ==
    { <<>>, [success |-> JBool(TRUE)], [success |-> JBool(FALSE)] }

\* the members of several parts together
Merge(a, b) ==
    [n \in DOMAIN a \cup DOMAIN b |-> IF n \in DOMAIN a THEN a[n] ELSE b[n]]

ResponseTexts ==
    { JsonText(Merge(Merge(t, c), Merge(m, s))) :
        t \in TokenParts, c \in CaptchaParts, m \in MessageParts, s \in SuccessParts }
    \cup { PlainText("<html>" \o IncorrectPhrase \o "</html>"),
           PlainText("<html>Service unavailable</html>"), PlainText("") }

\* str::contains(the phrase)
ContainsIncorrectPhrase(text) ==
    IF text.json
    THEN \E n \in MemberNames :
            text.members[n].t = "string" /\ text.members[n].v = IncorrectPhrase
    ELSE text.body = "<html>" \o IncorrectPhrase \o "</html>"

\* serde: a member decodes into a field of the given type
Decodes(value, type) ==
    CASE type = "bool" -> value.t = "bool"
      [] type = "String" -> value.t = "string"
      [] type = "nested Oauth" -> value.t = "string" /\ value.v \in OauthTexts

\* serde_json::from_str::<T>: every field of T is required, other members
\* are ignored
from_str(text, fields) ==
    /\ text.json
    /\ \A n \in DOMAIN fields : Decodes(text.members[n], fields[n])

LoginResponseMobile ==
    [success |-> "bool", requires_twofactor |-> "bool", redirect_uri |-> "String",
     login_complete |-> "bool", oauth |-> "nested Oauth"]
LoginErrorCaptcha ==
    [success |-> "bool", message |-> "String", captcha_needed |-> "bool",
     captcha_gid |-> "String"]

Ok(value) == [ok |-> TRUE, value |-> value]
Err(kind, detail) == [ok |-> FALSE, value |-> [kind |-> kind, detail |-> detail]]

\* resolve_login_response
resolve_login_response(response_text) ==
    IF from_str(response_text, LoginResponseMobile)
    THEN Ok([oauth |-> OauthOf(response_text.members["oauth"].v)])
    ELSE IF from_str(response_text, LoginErrorCaptcha)
    THEN Err("CaptchaRequired", response_text.members["captcha_gid"].v)
    ELSE IF ContainsIncorrectPhrase(response_text)
    THEN Err("IncorrectCredentials", "")
    ELSE Err("GeneralFailure", response_text)

NoResult == [ok |-> FALSE, value |-> [kind |-> "", detail |-> ""]]

InitClassify ==
    /\ InitAuthenticator
    /\ handshake = NoHandshake
    /\ fleet = NoFleet
    /\ \E text \in ResponseTexts :
        calc = [fn |-> "resolve_login_response", done |-> FALSE, calls |-> 0,
                input |-> text, result |-> NoResult]

Classify ==
    /\ calc.fn = "resolve_login_response"
    /\ ~calc.done
    /\ calc' = [calc EXCEPT !.done = TRUE, !.calls = 1,
                    !.result = resolve_login_response(calc.input)]
    /\ UNCHANGED <<Authenticator, handshake, fleet>>

NextClassify ==
    \/ Classify

SpecClassify == InitClassify /\ [][NextClassify]_vars

\* the payloads of section 4.2, step 7: the login answer with its embedded
\* token block; the captcha answer, whose captcha-required flag is set and
\* which names a guid
IsTokenPayload(text) ==
    /\ text.json
    /\ \A n \in {"success", "requires_twofactor", "login_complete"} :
            text.members[n].t = "bool"
    /\ text.members["redirect_uri"].t = "string"
    /\ text.members["oauth"].t = "string"
    /\ text.members["oauth"].v \in OauthTexts
IsCaptchaPayload(text) ==
    /\ text.json
    /\ text.members["success"].t = "bool"
    /\ text.members["message"].t = "string"
    /\ text.members["captcha_needed"] = JBool(TRUE)
    /\ text.members["captcha_gid"].t = "string"

\* C26 (as claimed): every response text gets exactly one outcome, by
\* priority: the token payload is Success; otherwise a captcha payload is
\* CaptchaRequired with the response's guid; otherwise a text containing the
\* incorrect-credentials phrase is IncorrectCredentials; otherwise
\* GeneralFailure carrying the text unchanged.
C26_ClassificationByPriority ==
    (calc.fn = "resolve_login_response" /\ calc.done) =>
        calc.result =
            IF IsTokenPayload(calc.input)
            THEN Ok([oauth |-> OauthOf(calc.input.members["oauth"].v)])
            ELSE IF IsCaptchaPayload(calc.input)
            THEN Err("CaptchaRequired", calc.input.members["captcha_gid"].v)
            ELSE IF ContainsIncorrectPhrase(calc.input)
            THEN Err("IncorrectCredentials", "")
            ELSE Err("GeneralFailure", calc.input)

\* C27 (as claimed): a response is classified CaptchaRequired only when its
\* captcha-required flag is true and it names a guid.
C27_CaptchaOnlyWhenFlagged ==
    ( /\ calc.fn = "resolve_login_response"
      /\ calc.done
      /\ ~calc.result.ok
      /\ calc.result.value.kind = "CaptchaRequired" )
    => ( /\ calc.input.members["captcha_needed"] = JBool(TRUE)
         /\ calc.input.members["captcha_gid"].t = "string" )

-----------------------------------------------------------------------------
(* login_website, statement by statement.                                  *)

\* the shared secrets a secret bundle may hold, base64 encoded, and
\* Secret::from_b64 on them
SharedSecretTexts == {"MTc=", "OTA1"}
Secret_from_b64(text) ==
    CASE text = "MTc=" -> Some(17)
      [] text = "OTA1" -> Some(905)
      [] OTHER -> None

\* the local clock when the code is computed, and the answers of the
\* service clock: offset = service time - local time, in seconds
LocalTimes == {0, 29, 31}
Offsets == {0, 15, 45}

\* the wall clock, whatever the offset
Time_now_wall_clock(local, offset) == local

\* Time::now(Some(offset)): the synchronized time
Time_now(local, offset) == local + offset

\* lines 115-119: no secret bundle gives the empty string, a bundle gives
\* the code of its shared secret at the given time
two_factor_code(linked_mafile, time) ==
    IF linked_mafile = None THEN ""
    ELSE generate_auth_code(Unwrap(Secret_from_b64(Unwrap(linked_mafile).shared_secret)),
                            time)

\* the answers the credential submission may get
SubmissionTexts ==
    { JsonText([success |-> JBool(TRUE), requires_twofactor |-> JBool(FALSE),
                redirect_uri |-> JString("steammobile://"),
                login_complete |-> JBool(TRUE),
                oauth |-> JString("{oauth of 76561197960265729}")]),
      JsonText([success |-> JBool(FALSE), message |-> JString("captcha"),
                captcha_needed |-> JBool(TRUE), captcha_gid |-> JString("guid1")]),
      JsonText([success |-> JBool(FALSE), message |-> JString(IncorrectPhrase),
                captcha_needed |-> JBool(FALSE), captcha_gid |-> JNumber(-1)]),
      PlainText("<html>Service unavailable</html>") }

\* the statements of login_website in program order
Statements ==
    << "session_id_request", "clock_offset_query", "rsa_key_request",
       "password_encryption", "clock_offset_query_again", "one_time_code",
       "credential_submission", "classification", "store_session" >>

StatementAfter(pc) ==
    LET i == CHOOSE k \in 1..Len(Statements) : Statements[k] = pc
    IN  IF i = Len(Statements) THEN "returned" ELSE Statements[i + 1]

\* a handshake that goes on to the next statement whatever the last one gave
login_website_next_unchecked(pc, ok) == StatementAfter(pc)

\* `?` after each fallible statement: an error returns at once
login_website_next(pc, ok) ==
    IF ok THEN StatementAfter(pc) ELSE "returned"

\* what the statement at h.pc leaves behind: its name in the log, the error
\* it returned if any, and where the function goes next
Advance(h, ok, error) ==
    [h EXCEPT !.pc = login_website_next(h.pc, ok),
              !.log = Append(@, h.pc),
              !.result = IF ok THEN @ ELSE Some(error)]

Panicked(h) == [h EXCEPT !.pc = "panicked", !.log = Append(@, h.pc)]

NoLoginRequest ==
    [donotcache |-> 0, twofactorcode |-> "", captcha_gid |-> "-1", sent |-> FALSE]

InitHandshake ==
    /\ InitAuthenticator
    /\ calc = NoCalc
    /\ fleet = NoFleet
    /\ \E mafile \in IF user.ma_file = "PresentMaFile"
                     THEN {Some([shared_secret |-> s]) : s \in SharedSecretTexts}
                     ELSE {None} :
        handshake = [pc |-> "session_id_request", log |-> <<>>, result |-> None,
                     linked_mafile |-> mafile, session_id |-> "",
                     rsa_donotcache |-> 0, offset |-> 0, now |-> 0,
                     login_request |-> NoLoginRequest,
                     classified |-> NoResult,
                     cached_data |-> EmptyCache, cookie_store |-> init_cookie_jar]

\* lines 77-90: the anonymous request; request() stores the cookie of its
\* answer, and a missing Set-Cookie header is a GeneralFailure
SessionIdRequest ==
    /\ handshake.pc = "session_id_request"
    /\ \/ handshake' = Advance(handshake, FALSE, Err("Network", "session request"))
       \/ handshake' = Advance(handshake, FALSE,
              Err("GeneralFailure",
                  "Something went wrong while getting sessionid. Should retry"))
       \/ handshake' =
              [Advance(handshake, TRUE, NoResult) EXCEPT
                  !.session_id = "sessionid0",
                  !.cookie_store = StoreResponseCookies(
                      @, STEAM_COMMUNITY_HOST, << <<"sessionid", "sessionid0", STEAM_COMMUNITY_HOST>> >>)]
    /\ UNCHANGED <<Authenticator, calc, fleet>>

\* lines 93 and 111: Time::offset().await?, each time a query of its own
ClockOffsetQuery ==
    /\ handshake.pc \in {"clock_offset_query", "clock_offset_query_again"}
    /\ \/ handshake' = Advance(handshake, FALSE, Err("TotpError", "clock query"))
       \/ \E offset \in Offsets :
            handshake' =
                IF handshake.pc = "clock_offset_query"
                THEN [Advance(handshake, TRUE, NoResult) EXCEPT
                         !.rsa_donotcache = offset * 1000]
                ELSE [Advance(handshake, TRUE, NoResult) EXCEPT !.offset = offset]
    /\ UNCHANGED <<Authenticator, calc, fleet>>

\* lines 97-99
RsaKeyRequest ==
    /\ handshake.pc = "rsa_key_request"
    /\ \/ handshake' = Advance(handshake, FALSE, Err("Network", "getrsakey"))
       \/ handshake' = Advance(handshake, TRUE, NoResult)
    /\ UNCHANGED <<Authenticator, calc, fleet>>

\* lines 102-109: the key material is decoded with expect(..) and the
\* password encrypted with unwrap(): malformed material panics
EncryptPassword ==
    /\ handshake.pc = "password_encryption"
    /\ \/ handshake' = Panicked(handshake)
       \/ handshake' = Advance(handshake, TRUE, NoResult)
    /\ UNCHANGED <<Authenticator, calc, fleet>>

\* lines 112-134: the synchronized time, the code and the LoginRequest
OneTimeCode ==
    /\ handshake.pc = "one_time_code"
    /\ \E local \in LocalTimes :
        LET time == Time_now(local, handshake.offset)
        IN  handshake' =
                [Advance(handshake, TRUE, NoResult) EXCEPT
                    !.now = local,
                    !.login_request =
                        [donotcache |-> handshake.offset * 1000,
                         twofactorcode |-> two_factor_code(handshake.linked_mafile, time),
                         captcha_gid |-> "-1", sent |-> FALSE]]
    /\ UNCHANGED <<Authenticator, calc, fleet>>

\* lines 139-143: the submission and the text of its answer
SubmitCredentials ==
    /\ handshake.pc = "credential_submission"
    /\ \/ handshake' = Advance(handshake, FALSE, Err("Network", "dologin"))
       \/ \E text \in SubmissionTexts :
            handshake' =
                [Advance(handshake, TRUE, NoResult) EXCEPT
                    !.login_request.sent = TRUE,
                    !.classified = [ok |-> FALSE, value |-> text]]
    /\ UNCHANGED <<Authenticator, calc, fleet>>

\* line 144: resolve_login_response(login_response_text)?
ClassifyAnswer ==
    /\ handshake.pc = "classification"
    /\ LET outcome == resolve_login_response(handshake.classified.value)
       IN  handshake' = [Advance(handshake, outcome.ok, outcome) EXCEPT
                            !.classified = outcome]
    /\ UNCHANGED <<Authenticator, calc, fleet>>

\* lines 146-187: the steamid is cached and the session cookies installed
StoreSession ==
    /\ handshake.pc = "store_session"
    /\ handshake.classified.ok
    /\ LET steamid == handshake.classified.value.oauth.steamid
       IN  handshake' =
               [Advance(handshake, TRUE, NoResult) EXCEPT
                   !.result = Some(Ok("")),
                   !.cached_data = CachedInfo_set_steamid(@, steamid),
                   !.cookie_store = InstallSessionCookies(
                       @, SessionHosts, steamid, handshake.session_id)]
    /\ UNCHANGED <<Authenticator, calc, fleet>>

NextHandshake ==
    \/ SessionIdRequest
    \/ ClockOffsetQuery
    \/ RsaKeyRequest
    \/ EncryptPassword
    \/ OneTimeCode
    \/ SubmitCredentials
    \/ ClassifyAnswer
    \/ StoreSession

SpecHandshake == InitHandshake /\ [][NextHandshake]_vars

\* the first place of a statement in the log of the call, 0 if it never ran
FirstAt(step) ==
    IF \E k \in 1..Len(handshake.log) : handshake.log[k] = step
    THEN CHOOSE k \in 1..Len(handshake.log) :
            /\ handshake.log[k] = step
            /\ \A j \in 1..(k - 1) : handshake.log[j] # step
    ELSE 0

\* b ran only after a had run
Precedes(a, b) == FirstAt(b) > 0 => (FirstAt(a) > 0 /\ FirstAt(a) < FirstAt(b))

HandshakeFailed ==
    \/ handshake.pc = "panicked"
    \/ IsSome(handshake.result) /\ ~Unwrap(handshake.result).ok

\* the cookies only the installation of the session puts in the jar
SessionInstalled ==
    \E c \in CookieJar_iter(handshake.cookie_store) :
        \/ c.name \in {"steamLoginSecure", "steamLogin", "timezoneOffset"}
        \/ c.domain \in {STEAM_HELP_HOST, STEAM_STORE_HOST}

C30_TwoFactorCode ==
    (handshake.pc # "" /\ FirstAt("one_time_code") > 0) =>
        /\ handshake.login_request.twofactorcode = "" <=> user.ma_file = "AbsentMaFile"
        /\ user.ma_file = "PresentMaFile" =>
              handshake.login_request.twofactorcode =
                  generate_auth_code(
                      Unwrap(Secret_from_b64(Unwrap(handshake.linked_mafile).shared_secret)),
                      handshake.now + handshake.offset)

\* a submission whose code was computed in a later window than the one the
\* local clock is in
C30_Witness ==
    /\ handshake.pc # ""
    /\ handshake.login_request.sent
    /\ user.ma_file = "PresentMaFile"
    /\ handshake.offset > 0
    /\ Len(handshake.login_request.twofactorcode) = 5
    /\ handshake.login_request.twofactorcode #
           two_factor_code(handshake.linked_mafile, handshake.now)

-----------------------------------------------------------------------------
(* Several authenticators, each with its MobileClient, and the tasks that  *)
(* share one of them.                                                      *)

Instances == {1, 2}

\* a constructor handing out one process-wide jar
MobileClient_new_shared(heap) ==
    [cookie_store |-> 1,
     heap |-> IF heap = <<>> THEN <<init_cookie_jar>>
              ELSE [heap EXCEPT ![1] = init_cookie_jar]]

\* MobileClient::new: Arc::new(RwLock::new(Self::init_cookie_jar())), a
\* fresh allocation for every client
MobileClient_new(heap) ==
    [cookie_store |-> Len(heap) + 1, heap |-> Append(heap, init_cookie_jar)]

\* the batches a task installs under one write guard: the session cookies
\* of a login, and the cookies of one response stored under its host
InstallBatch(kind) ==
    IF kind = "login"
    THEN SessionCookiesFor(STEAM_COMMUNITY_HOST, "76561197960265729", "sessionid0")
         \o SessionCookiesFor(STEAM_HELP_HOST, "76561197960265729", "sessionid0")
         \o SessionCookiesFor(STEAM_STORE_HOST, "76561197960265729", "sessionid0")
    ELSE << Cookie("sessionid", "sessionid1", STEAM_COMMUNITY_HOST),
            Cookie("browserid", "b1", STEAM_COMMUNITY_HOST) >>

\* what a reader holding the read guard sees: the cookies of each domain
Snapshot(jar) ==
    [d \in {STEAM_COMMUNITY_HOST, STEAM_HELP_HOST, STEAM_STORE_HOST} |->
        dump_cookies_by_domain(jar, d)]

\* RwLock: a writer excludes everyone, readers exclude writers
WriteHeld(f, ref) ==
    \E k \in 1..Len(f.clients) :
        f.clients[k].cookie_store = ref /\ f.clients[k].writing

JarOf(f, i) == f.heap[f.clients[i].cookie_store]

InitInstances ==
    /\ InitAuthenticator
    /\ calc = NoCalc
    /\ handshake = NoHandshake
    /\ fleet = [clients |-> <<>>, heap |-> <<>>, actor |-> 0]

\* SteamAuthenticator::new with MobileClient::default()
NewAuthenticator ==
    /\ Len(fleet.clients) < Cardinality(Instances)
    /\ LET made == MobileClient_new(fleet.heap)
       IN  fleet' = [clients |-> Append(fleet.clients,
                                    [cookie_store |-> made.cookie_store,
                                     cache |-> EmptyCache, writing |-> FALSE,
                                     todo |-> <<>>, installed |-> {},
                                     seen |-> None, whole |-> {init_cookie_jar}]),
                     heap |-> made.heap,
                     actor |-> Len(fleet.clients) + 1]
    /\ UNCHANGED <<Authenticator, calc, handshake>>

\* cookie_store.write() is granted: login.rs:160 (after the cache was
\* written at 152-156) or client.rs:526
BeginInstall ==
    \E i \in 1..Len(fleet.clients), kind \in {"login", "response"} :
        /\ kind \notin fleet.clients[i].installed
        /\ ~WriteHeld(fleet, fleet.clients[i].cookie_store)
        /\ fleet' = [fleet EXCEPT
                        !.actor = i,
                        !.clients[i].writing = TRUE,
                        !.clients[i].todo = InstallBatch(kind),
                        !.clients[i].installed = @ \cup {kind},
                        !.clients[i].cache =
                            IF kind = "login"
                            THEN CachedInfo_set_steamid(@, "76561197960265729")
                            ELSE @]
        /\ UNCHANGED <<Authenticator, calc, handshake>>

\* one add_original of the loop, under the guard
InstallOne ==
    \E i \in 1..Len(fleet.clients) :
        /\ fleet.clients[i].writing
        /\ fleet.clients[i].todo # <<>>
        /\ fleet' = [fleet EXCEPT
                        !.actor = i,
                        !.clients[i].todo = Tail(@),
                        !.heap[fleet.clients[i].cookie_store] =
                            CookieJar_add_original(@, Head(fleet.clients[i].todo))]
        /\ UNCHANGED <<Authenticator, calc, handshake>>

\* the guard is dropped at the end of the block
EndInstall ==
    \E i \in 1..Len(fleet.clients) :
        /\ fleet.clients[i].writing
        /\ fleet.clients[i].todo = <<>>
        /\ fleet' = [fleet EXCEPT
                        !.actor = i,
                        !.clients[i].writing = FALSE,
                        !.clients[i].whole = @ \cup {JarOf(fleet, i)}]
        /\ UNCHANGED <<Authenticator, calc, handshake>>

\* client.rs:486: another task of the same client reads under
\* cookie_store.read()
ReadCookies ==
    \E i \in 1..Len(fleet.clients) :
        /\ ~WriteHeld(fleet, fleet.clients[i].cookie_store)
        /\ fleet' = [fleet EXCEPT
                        !.actor = i,
                        !.clients[i].seen = Some(Snapshot(JarOf(fleet, i)))]
        /\ UNCHANGED <<Authenticator, calc, handshake>>

NextInstances ==
    \/ NewAuthenticator
    \/ BeginInstall
    \/ InstallOne
    \/ EndInstall
    \/ ReadCookies

SpecInstances == InitInstances /\ [][NextInstances]_vars

\* what belongs to instance j: its jar, its cache and what its readers saw
OwnState(f, j) ==
    [jar |-> JarOf(f, j), cache |-> f.clients[j].cache, seen |-> f.clients[j].seen]

\* C23: every authenticator instance owns its cookie store and session
\* cache: two instances never hold the same store, and a step taken on one
\* instance leaves the store, the cache and the readings of every other
\* instance as they were.
C23_InstancesAreIndependent ==
    /\ [] ( \A i \in 1..Len(fleet.clients), j \in 1..Len(fleet.clients) :
                i # j => fleet.clients[i].cookie_store # fleet.clients[j].cookie_store )
    /\ [][ \A j \in 1..Len(fleet.clients) :
               fleet'.actor # j => OwnState(fleet', j) = OwnState(fleet, j) ]_vars

\* the first instance is logged in, the second still has the jar and cache
\* it was built with and has read them
C23_Witness ==
    /\ Len(fleet.clients) = 2
    /\ "login" \in fleet.clients[1].installed
    /\ ~fleet.clients[1].writing
    /\ fleet.clients[1].cache # EmptyCache
    /\ JarOf(fleet, 1) # init_cookie_jar
    /\ JarOf(fleet, 2) = init_cookie_jar
    /\ fleet.clients[2].cache = EmptyCache
    /\ fleet.clients[2].seen = Some(Snapshot(init_cookie_jar))

\* the readings of every instance are jars as they stood between batches
ReaderSeesWholeBatches ==
    \A i \in 1..Len(fleet.clients) :
        IsSome(fleet.clients[i].seen) =>
            \E jar \in fleet.clients[i].whole :
                Unwrap(fleet.clients[i].seen) = Snapshot(jar)

HasAll(cookies, names) == \A n \in names : \E c \in cookies : c.name = n
HasNone(cookies, names) == \A n \in names : \A c \in cookies : c.name # n

\* C28 (as claimed): a reader running concurrently with an installation sees
\* the batch all or nothing: never the session cookies on some of the three
\* domains and not on the others, nor part of the cookies of one response.
C28_ReaderSeesAllOrNothing ==
    \A i \in 1..Len(fleet.clients) :
        IsSome(fleet.clients[i].seen) =>
            LET seen == Unwrap(fleet.clients[i].seen)
                login_names == {"steamLoginSecure", "steamLogin", "timezoneOffset"}
                response_names == {"sessionid", "browserid"}
            IN  /\ \/ \A d \in DOMAIN seen : HasAll(seen[d], login_names)
                   \/ \A d \in DOMAIN seen : HasNone(seen[d], login_names)
                /\ \/ HasAll(seen[STEAM_COMMUNITY_HOST], response_names)
                   \/ HasNone(seen[STEAM_COMMUNITY_HOST], response_names)
                   \/ "response" \notin fleet.clients[i].installed

-----------------------------------------------------------------------------
(* Clock offset, propagation delay and the guard's verdicts.               *)

\* C31 (as claimed): within one handshake attempt one clock offset, computed
\* once, serves every time-dependent value: the timestamp of the RSA-key
\* request, the timestamp of the credential submission and the one-time code
\* all come from it, whatever the service clock would answer to a second
\* query.
C31_SingleClockOffset ==
    (handshake.pc # "" /\ FirstAt("one_time_code") > 0) =>
        /\ handshake.login_request.donotcache = handshake.rsa_donotcache
        /\ handshake.login_request.twofactorcode =
               two_factor_code(handshake.linked_mafile,
                               Time_now(handshake.now, handshake.rsa_donotcache \div 1000))

\* C33 (as claimed): in finalize_authenticator the propagation delay elapses
\* between the validated SMS code and the re-check of the phone: the
\* re-check request is never sent before the delay has completed.
C33_DelayBeforeRecheck ==
    (op.kind = "finalize_authenticator"
        /\ \E k \in 1..Len(op.log) : op.log[k] = "account_has_phone")
    => \E k \in 1..Len(op.log) :
          /\ op.log[k] = "account_has_phone"
          /\ k > 1
          /\ op.log[k - 1] = "delay"

\* C35 (as claimed): the session guard gives a result for every probe
\* response, whatever its redirect target: session_is_expired returns
\* Ok(true), Ok(false) or an error, and the guarded operation is not aborted
\* by the guard's inspection.
C35_GuardAlwaysAnswers ==
    /\ guard.verdict \in {"", "Ok(true)", "Ok(false)", "Err"}
    /\ ~(op.pc = "panicked" /\ op.error = "panic")

\* C32: whenever the account already has a phone number registered,
\* add_authenticator sends neither the e-mail-confirmation signal nor an
\* add-phone request: for either input step the attachment request is the
\* one that follows, and a successful call returns MobileAuth(file).
C32_PhoneRegisteredSkipsEmail ==
    (op.kind = "add_authenticator" /\ op.phone_registered = "yes") =>
        /\ \A k \in 1..Len(op.log) :
              op.log[k] \notin {"check_email_confirmation", "add_phone_to_account"}
        /\ Len(op.log) >= 2 => op.log[2] = "add_authenticator_to_account"
        /\ Len(op.log) <= 2
        /\ (op.pc = "done" /\ op.result = "Ok") => op.value = "MobileAuth"

\* a call at the initial step, on an account with a phone, that returned the
\* file after the attachment request
C32_Witness ==
    /\ op.kind = "add_authenticator"
    /\ op.args.current_step = "InitialStep"
    /\ op.phone_registered = "yes"
    /\ op.pc = "done"
    /\ op.result = "Ok"
    /\ op.value = "MobileAuth"
    /\ op.log = <<"account_has_phone", "add_authenticator_to_account">>

\* C34: once login has returned, no authenticated operation changes the
\* session cache's account id or session tokens, and none changes the
\* identity: every step taken after the return leaves both as they were.
C34_OperationsOnlyReadTheCache ==
    [][ login_pc = "returned_ok" => (cache' = cache /\ user' = user) ]_vars

\* an authenticator removal that returned Ok with the account id still cached
C34_Witness ==
    /\ login_pc = "returned_ok"
    /\ op.kind = "remove_authenticator"
    /\ op.pc = "done"
    /\ op.result = "Ok"
    /\ IsSome(cache)
    /\ Unwrap(cache).steamid \in SteamIds

\* the cookies a step added to the jar or gave a new value or domain
NewCookies == CookieJar_iter(cookie_store') \ CookieJar_iter(cookie_store)

C36_ParseAlwaysReturns ==
    (calc.fn = "parse" /\ calc.done) =>
        /\ calc.result.kind \in {"Some", "None"}
        /\ calc.result.kind = "Some" <=>
               (IsSome(calc.input.steam3) \/ IsSome(calc.input.steam64))
        /\ (~IsSome(calc.input.steam3) /\ IsSome(calc.input.steam64)) =>
               calc.result.id = from_steam64(u64_from_str(Unwrap(calc.input.steam64)))

\* what the code does: a token whose type letter AccountType::new does not
\* list, or whose digits exceed u32, ends in a panic; every other text is
\* answered as stated
C36_ParseReturnsUnlessUnwrapFails ==
    (calc.fn = "parse" /\ calc.done) =>
        LET token == calc.input.steam3
            unwraps == /\ IsSome(AccountType_new(Unwrap(token).type))
                       /\ IsSome(u32_parse(Unwrap(token).account))
        IN  /\ (IsSome(token) /\ ~unwraps) <=> calc.result.kind = "Panic"
            /\ (IsSome(token) /\ unwraps) =>
                   /\ calc.result.kind = "Some"
                   /\ calc.result.id.account_type =
                          SubSeq(Bits(Unwrap(AccountType_new(Unwrap(token).type)), 64), 61, 64)
            /\ (~IsSome(token) /\ IsSome(calc.input.steam64)) =>
                   calc.result = ParseResult("Some",
                       from_steam64(u64_from_str(Unwrap(calc.input.steam64))))
            /\ (~IsSome(token) /\ ~IsSome(calc.input.steam64)) =>
                   calc.result.kind = "None"


-----------------------------------------------------------------------------
\* Confirmation: the trade offer behind a pending confirmation.

\* EConfirmationType
EConfirmationType ==
    {"Unknown", "Generic", "Trade", "Market", "FeatureOptOut",
     "PhoneNumberChange", "AccountRecovery", "APIKey"}

DecimalDigits == {"0", "1", "2", "3", "4", "5", "6", "7", "8", "9"}
DigitValue(c) ==
    CASE c = "0" -> 0 [] c = "1" -> 1 [] c = "2" -> 2 [] c = "3" -> 3
      [] c = "4" -> 4 [] c = "5" -> 5 [] c = "6" -> 6 [] c = "7" -> 7
      [] c = "8" -> 8 [] c = "9" -> 9

\* u64::MAX = 18446744073709551615, digit by digit
U64MaxDigits ==
    <<"1", "8", "4", "4", "6", "7", "4", "4", "0", "7",
      "3", "7", "0", "9", "5", "5", "1", "6", "1", "5">>

\* a number without its leading zeros; zero is the single digit 0
RECURSIVE StripZeros(_)
StripZeros(ds) ==
    IF Len(ds) > 1 /\ Head(ds) = "0" THEN StripZeros(Tail(ds)) ELSE ds

\* a <= b for two digit sequences without leading zeros
RECURSIVE DigitsLeq(_, _)
DigitsLeq(a, b) ==
    IF Len(a) # Len(b) THEN Len(a) < Len(b)
    ELSE IF a = <<>> THEN TRUE
    ELSE IF Head(a) # Head(b) THEN DigitValue(Head(a)) < DigitValue(Head(b))
    ELSE DigitsLeq(Tail(a), Tail(b))

\* str::parse::<u64> on a text given as its characters: an optional "+",
\* then at least one character, all of them decimal digits, the number not
\* above u64::MAX. The number is kept as its digits without leading zeros.
u64_parse(src) ==
    LET digits == IF src # <<>> /\ Head(src) = "+" THEN Tail(src) ELSE src
    IN  IF digits = <<>> THEN None
        ELSE IF \E i \in 1..Len(digits) : digits[i] \notin DecimalDigits THEN None
        ELSE IF ~DigitsLeq(StripZeros(digits), U64MaxDigits) THEN None
        ELSE Some(StripZeros(digits))

\* trade_offer_id that forgets to look at the kind
trade_offer_id_of_any_kind(self) ==
    u64_parse(self.creator_id)

\* Confirmation::trade_offer_id
trade_offer_id(self) ==
    IF self.kind = "Trade" THEN u64_parse(self.creator_id) ELSE None

\* Confirmation::has_trade_offer_id; "panic" is the unwrap() of a creator_id
\* that does not parse, which && reaches only for a Trade confirmation
has_trade_offer_id(self, offer_id) ==
    IF self.kind # "Trade" THEN "false"
    ELSE IF ~IsSome(u64_parse(self.creator_id)) THEN "panic"
    ELSE IF offer_id = Unwrap(u64_parse(self.creator_id)) THEN "true"
    ELSE "false"

\* creator_id texts: numbers, with a sign, with leading zeros, at and past
\* u64::MAX, not numbers, empty
CreatorIds ==
    {<<"7">>, <<"4", "2">>, <<"0">>, <<"0", "0", "7">>, <<"+", "7">>,
     U64MaxDigits, <<"0">> \o U64MaxDigits,
     SubSeq(U64MaxDigits, 1, 19) \o <<"6">>, U64MaxDigits \o <<"0">>,
     <<>>, <<"+">>, <<"-", "7">>, <<"7", "a">>, <<" ", "7">>, <<"a", "b", "c">>}

\* the confirmations under test; the other fields play no part
ConfirmationInputs == [kind : EConfirmationType, creator_id : CreatorIds]

\* the offer ids asked about
OfferIds == {<<"7">>, <<"4", "2">>, <<"0">>, U64MaxDigits}

InitConfirmation ==
    /\ InitAuthenticator
    /\ handshake = NoHandshake
    /\ fleet = NoFleet
    /\ \/ \E c \in ConfirmationInputs :
            calc = [fn |-> "trade_offer_id", done |-> FALSE, self |-> c,
                    offer_id |-> <<>>, id |-> None, has |-> ""]
       \/ \E c \in ConfirmationInputs, x \in OfferIds :
            calc = [fn |-> "has_trade_offer_id", done |-> FALSE, self |-> c,
                    offer_id |-> x, id |-> None, has |-> ""]

\* confirmation.trade_offer_id()
TradeOfferId ==
    /\ calc.fn = "trade_offer_id"
    /\ ~calc.done
    /\ calc' = [calc EXCEPT !.done = TRUE, !.id = trade_offer_id(calc.self)]
    /\ UNCHANGED <<Authenticator, handshake, fleet>>

\* confirmation.has_trade_offer_id(x); trade_offer_id() of the same
\* confirmation is recorded beside it
HasTradeOfferId ==
    /\ calc.fn = "has_trade_offer_id"
    /\ ~calc.done
    /\ calc' = [calc EXCEPT !.done = TRUE,
                    !.has = has_trade_offer_id(calc.self, calc.offer_id),
                    !.id = trade_offer_id(calc.self)]
    /\ UNCHANGED <<Authenticator, handshake, fleet>>

NextConfirmation ==
    \/ TradeOfferId
    \/ HasTradeOfferId

SpecConfirmation == InitConfirmation /\ [][NextConfirmation]_vars

\* the number a text denotes when it is the decimal text of an unsigned
\* 64-bit integer: its digits, leading zeros and a leading + aside
IsDecimalTextOf(text, n) ==
    LET digits == IF text # <<>> /\ Head(text) = "+" THEN Tail(text) ELSE text
    IN  /\ digits # <<>>
        /\ \A i \in 1..Len(digits) : digits[i] \in DecimalDigits
        /\ n = StripZeros(digits)
        /\ DigitsLeq(n, U64MaxDigits)

\* C37: trade_offer_id returns Some(n) exactly when the kind is Trade and
\* creator_id is the decimal text of an unsigned 64-bit n, and None in every
\* other case.
C37_TradeOfferIdOnlyForNumericTrade ==
    (calc.fn = "trade_offer_id" /\ calc.done) =>
        LET text == calc.self.creator_id
            candidates == OfferIds \cup {StripZeros(SubSeq(text, k, Len(text))) : k \in 1..2}
            denoted == {n \in candidates : IsDecimalTextOf(text, n)}
        IN  calc.id = IF calc.self.kind = "Trade" THEN denoted ELSE None

C37_Witness ==
    /\ calc.fn = "trade_offer_id"
    /\ calc.done
    /\ calc.self = [kind |-> "Trade", creator_id |-> <<"0", "0", "7">>]
    /\ calc.id = Some(<<"7">>)

\* C38: has_trade_offer_id(x) is true exactly when trade_offer_id() is
\* Some(x) and false in every other case, a non-Trade confirmation and a
\* Trade confirmation with a non-numeric creator_id included.
C38_HasAgreesWithTradeOfferId ==
    (calc.fn = "has_trade_offer_id" /\ calc.done) =>
        calc.has = IF calc.id = Some(calc.offer_id) THEN "true" ELSE "false"

=============================================================================
